---- MODULE Spec2Model ----
(***************************************************************************)
(* A model of the subscription lifecycle of Bot_vpn: the period extension  *)
(* (admin._add_days, referrals.add_days_to_subscription), the referral     *)
(* bookkeeping (referrals.apply_referral_on_start,                         *)
(* admin._award_referrer_bonus_if_first_paid), the payment linker          *)
(* (admin._apply_latest_pending_payment_tariff) and the expiration watcher *)
(* (main.subscription_watcher).                                            *)
(*                                                                         *)
(* Time is counted in minutes since the start of the run.  A timestamp     *)
(* column holds the instant its ISO-8601 text denotes                      *)
(* (datetime.isoformat / datetime.fromisoformat are exact inverses on the  *)
(* timezone-aware values the program stores), or NULL.                     *)
(*                                                                         *)
(* Every handler is written as a step machine over a context               *)
(*   c = [pc, db, now, a (arguments), l (locals), gh, cr (history)]        *)
(* with one step per store statement (a write and the commit that follows  *)
(* it on the same connection are one step: SQLite serialises writers).     *)
(* The sequential specification runs a handler to its end in one action;   *)
(* the interleaving specification runs it one step at a time.              *)
(***************************************************************************)
EXTENDS Integers, Sequences, FiniteSets, TLC

VARIABLES
    now,      \* the wall clock, minutes
    db,       \* the SQLite store: users, subscriptions, user_keys, payments
    gh,       \* history: counters of credits granted
    procs,    \* handler invocations in flight (interleaving specification)
    script,   \* position in the scripted scenario (scenario specification)
    scan,     \* the watcher's pass in progress (overlap specification)
    payfsm    \* the FSM context of each user's chat (dialogue specification)

vars == <<now, db, gh, procs, script, scan, payfsm>>

-----------------------------------------------------------------------------
(* Units, program constants, bounds *)

NULL == 0 - 1
Day == 24 * 60

\* main.py:37-39
CHECK_INTERVAL == 15
WARN_BEFORE == 2 * Day
GRACE_AFTER_EXPIRE == 2 * Day
\* admin.py:16, referrals.py:17-18
BONUS_DAYS_FOR_REFERRER == 14
TRIAL_DAYS_FOR_INVITEE == 3
\* admin.py:310
DAYS_PER_MONTH == 30

\* telegram ids that occur in a run; the operator is not a subscriber
Ids == {1, 2}
ADMIN_IDS == {7}
\* the ids a row of the store can carry: a referral payload may name the operator too
StoreIds == Ids \cup ADMIN_IDS
TariffCodes == {"outline", "v2ray", "bundle"}
KeyTypes == {"outline", "v2ray", "amnezia"}
NoTariff == "NULL"
NoKey == <<>>

\* bounds of the exploration
MaxDays == 34
MaxGrants == 2
MaxProcs == 3
MaxKeySets == 1
MaxPayments == 2
MaxExtends == 2
MaxLoopGrants == 1

timedelta(days) == days * Day

\* _parse_iso: None for NULL / empty text, else the instant the text denotes
_parse_iso(dt_iso) == IF dt_iso = NULL THEN NULL ELSE dt_iso

-----------------------------------------------------------------------------
(* The store *)

NoUser == [present |-> FALSE, username |-> "", referrer_id |-> NULL,
           ref_bonus_awarded |-> 0, first_paid |-> 0, first_paid_at |-> NULL]

NoSub == [present |-> FALSE, purchased_at |-> NULL, period_days |-> NULL,
          expires_at |-> NULL, tariff |-> NoTariff,
          warn_2d_sent |-> 0, expired_sent |-> 0, keys_deleted |-> 0]

\* updated_at, which no statement reads, is left out
NoKeys == [present |-> FALSE, outline |-> NoKey, v2ray |-> NoKey, amnezia |-> NoKey,
           updated_by |-> NULL]

EmptyDb == [users |-> [u \in StoreIds |-> NoUser],
            subscriptions |-> [u \in StoreIds |-> NoSub],
            user_keys |-> [u \in StoreIds |-> NoKeys],
            payments |-> <<>>]

\* main.upsert_user: INSERT ... ON CONFLICT DO UPDATE SET first_name, last_name, username
upsert_user(d, u, name) ==
    IF d.users[u].present
    THEN [d EXCEPT !.users[u].username = name]
    ELSE [d EXCEPT !.users[u] = [NoUser EXCEPT !.present = TRUE, !.username = name]]

\* main.user_exists
user_exists(d, u) == d.users[u].present

\* an INSERT OR REPLACE of the row: a fresh row with the tariff
_set_subscription_tariff_replace(d, u, tariff_code) ==
    [d EXCEPT !.subscriptions[u] = [NoSub EXCEPT !.present = TRUE, !.tariff = tariff_code]]

\* admin._set_subscription_tariff: INSERT ... ON CONFLICT DO NOTHING; UPDATE tariff
_set_subscription_tariff(d, u, tariff_code) ==
    IF d.subscriptions[u].present
    THEN [d EXCEPT !.subscriptions[u].tariff = tariff_code]
    ELSE [d EXCEPT !.subscriptions[u] =
              [NoSub EXCEPT !.present = TRUE, !.tariff = tariff_code]]

\* admin._set_key: INSERT ... ON CONFLICT DO NOTHING; UPDATE user_keys SET col, updated_by
_set_key(d, u, key_type, key_value, admin_id) ==
    LET row == IF d.user_keys[u].present
               THEN d.user_keys[u]
               ELSE [NoKeys EXCEPT !.present = TRUE, !.updated_by = admin_id]
        set == [row EXCEPT ![key_type] = key_value, !.updated_by = admin_id]
    IN  [d EXCEPT !.user_keys[u] = set]

\* an extension that always builds on the stored expiry, lapsed or not
ExtendBaseStale(expires_at, t) ==
    LET exp_dt == _parse_iso(expires_at)
    IN  IF exp_dt # NULL THEN exp_dt ELSE t

\* the base of an extension: expires_at when it lies strictly after now, else now
ExtendBase(expires_at, t) ==
    LET exp_dt == _parse_iso(expires_at)
    IN  IF exp_dt # NULL /\ exp_dt > t THEN exp_dt ELSE t

\* int(period_days or 0)
IntOr0(x) == IF x = NULL THEN 0 ELSE x

\* admin._add_days, the row is missing: INSERT ... VALUES (?, now, days, now+days, NULL, 0, 0, 0)
AdminInsertSub(d, u, days, t) ==
    [d EXCEPT !.subscriptions[u] =
        [NoSub EXCEPT !.present = TRUE, !.purchased_at = t, !.period_days = days,
                      !.expires_at = t + timedelta(days)]]

\* an UPDATE of period_days and expires_at alone, as referrals.add_days_to_subscription has it
AdminUpdateSubNoReset(d, u, days, t, row) ==
    LET new_expires == ExtendBase(row.expires_at, t) + timedelta(days)
        new_period == IntOr0(row.period_days) + days
        cur == d.subscriptions[u]
        upd == [cur EXCEPT !.period_days = new_period, !.expires_at = new_expires]
        fill == IF upd.purchased_at = NULL THEN [upd EXCEPT !.purchased_at = t] ELSE upd
    IN  IF cur.present THEN [d EXCEPT !.subscriptions[u] = fill] ELSE d

\* an UPDATE that restarts the day counter when the subscription had lapsed
AdminUpdateSubRestart(d, u, days, t, row) ==
    LET exp_dt == _parse_iso(row.expires_at)
        lapsed == exp_dt = NULL \/ exp_dt <= t
        new_expires == ExtendBase(row.expires_at, t) + timedelta(days)
        new_period == IF lapsed THEN days ELSE IntOr0(row.period_days) + days
        cur == d.subscriptions[u]
        upd == [cur EXCEPT !.period_days = new_period, !.expires_at = new_expires,
                           !.warn_2d_sent = 0, !.expired_sent = 0, !.keys_deleted = 0]
        fill == IF upd.purchased_at = NULL THEN [upd EXCEPT !.purchased_at = t] ELSE upd
    IN  IF cur.present THEN [d EXCEPT !.subscriptions[u] = fill] ELSE d

\* admin._add_days, the row exists: UPDATE period_days, expires_at and the three
\* flags, then fill purchased_at when it is empty
AdminUpdateSub(d, u, days, t, row) ==
    LET new_expires == ExtendBase(row.expires_at, t) + timedelta(days)
        new_period == IntOr0(row.period_days) + days
        cur == d.subscriptions[u]
        upd == [cur EXCEPT !.period_days = new_period, !.expires_at = new_expires,
                           !.warn_2d_sent = 0, !.expired_sent = 0, !.keys_deleted = 0]
        fill == IF upd.purchased_at = NULL THEN [upd EXCEPT !.purchased_at = t] ELSE upd
    IN  IF cur.present THEN [d EXCEPT !.subscriptions[u] = fill] ELSE d

\* referrals.add_days_to_subscription, the row is missing: INSERT (telegram_id,
\* purchased_at, period_days, expires_at); the other columns take their defaults
RefInsertSub(d, u, days, t) ==
    [d EXCEPT !.subscriptions[u] =
        [NoSub EXCEPT !.present = TRUE, !.purchased_at = t, !.period_days = days,
                      !.expires_at = t + timedelta(days)]]

\* referrals.add_days_to_subscription, the row exists: UPDATE period_days, expires_at
RefUpdateSub(d, u, days, t, row) ==
    LET new_expires == ExtendBase(row.expires_at, t) + timedelta(days)
        new_period == IntOr0(row.period_days) + days
    IN  IF d.subscriptions[u].present
        THEN [d EXCEPT !.subscriptions[u].period_days = new_period,
                       !.subscriptions[u].expires_at = new_expires]
        ELSE d

-----------------------------------------------------------------------------
(* admin.admin_add and the functions it calls, one step per store statement *)

\* a check that lets every caller through
is_admin_anyone(user_id) == TRUE

is_admin(user_id) == user_id \in ADMIN_IDS

AdminLocals == [days |-> 0, target |-> NULL, cont |-> "done", adnow |-> NULL, row |-> NoSub,
                pay_id |-> NULL, pay_tariff |-> NoTariff,
                referrer_id |-> NULL, ref_bonus_awarded |-> 0, first_paid |-> 0,
                awnow |-> NULL, award_ret |-> NULL, ret |-> "none"]

\* ids of the user's pending payments
PendingIds(d, u) ==
    {i \in 1..Len(d.payments) : d.payments[i].user_id = u /\ d.payments[i].status = "pending"}

\* a SELECT that orders the pending payments by ascending id
OldestPendingId(d, u) ==
    IF PendingIds(d, u) = {} THEN NULL
    ELSE CHOOSE i \in PendingIds(d, u) : \A j \in PendingIds(d, u) : i <= j

\* SELECT id ... WHERE user_id=? AND status='pending' ORDER BY id DESC LIMIT 1
LatestPendingId(d, u) ==
    IF PendingIds(d, u) = {} THEN NULL
    ELSE CHOOSE i \in PendingIds(d, u) : \A j \in PendingIds(d, u) : j <= i

\* admin._add_days, lines 264-268: take now, read the row
AddDaysRead(c) ==
    [c EXCEPT !.l.adnow = c.now, !.l.row = c.db.subscriptions[c.l.target], !.pc = "ad_write"]

\* admin._add_days, lines 270-306: INSERT (raises when the row appeared meanwhile:
\* telegram_id is the primary key) or UPDATE, then commit and return
AddDaysWrite(c) ==
    LET u == c.l.target
        counted == IF c.l.cont = "aw_mark"
                   THEN [c.gh EXCEPT !.bonus[c.a.user_id] = @ + 1]
                   ELSE c.gh
    IN  IF ~c.l.row.present
        THEN IF c.db.subscriptions[u].present
             THEN [c EXCEPT !.pc = "raised"]
             ELSE [c EXCEPT !.db = AdminInsertSub(c.db, u, c.l.days, c.l.adnow),
                            !.gh = counted, !.cr[u] = @ + c.l.days, !.pc = c.l.cont]
        ELSE [c EXCEPT !.db = AdminUpdateSub(c.db, u, c.l.days, c.l.adnow, c.l.row),
                       !.gh = counted, !.cr[u] = @ + c.l.days, !.pc = c.l.cont]

\* admin_add, lines 545-560: the operator check, the month count, _add_months
AdminAddBegin(c) ==
    IF ~is_admin(c.a.caller) THEN [c EXCEPT !.pc = "done", !.l.ret = "denied"]
    ELSE IF c.a.months \notin {1, 2, 3, 6, 12} THEN [c EXCEPT !.pc = "done", !.l.ret = "invalid"]
    ELSE [c EXCEPT !.l.days = c.a.months * DAYS_PER_MONTH, !.l.target = c.a.user_id,
                   !.l.cont = "pay_read", !.l.ret = "granted", !.pc = "ad_read"]

\* a linker that takes the user's latest payment whatever its status
PayReadAnyStatus(c) ==
    LET mine == {i \in 1..Len(c.db.payments) : c.db.payments[i].user_id = c.a.user_id}
        id == IF mine = {} THEN NULL ELSE CHOOSE i \in mine : \A j \in mine : j <= i
    IN  IF id = NULL THEN [c EXCEPT !.pc = "aw_read"]
        ELSE [c EXCEPT !.l.pay_id = id, !.l.pay_tariff = c.db.payments[id].tariff,
                       !.pc = IF c.db.payments[id].tariff # NoTariff
                              THEN "pay_tariff" ELSE "pay_approve"]

\* a linker whose early return ends the whole grant when no payment is pending
PayReadEndsGrant(c) ==
    LET id == LatestPendingId(c.db, c.a.user_id)
    IN  IF id = NULL THEN [c EXCEPT !.pc = "done"]
        ELSE [c EXCEPT !.l.pay_id = id, !.l.pay_tariff = c.db.payments[id].tariff,
                       !.pc = IF c.db.payments[id].tariff # NoTariff
                              THEN "pay_tariff" ELSE "pay_approve"]

\* _apply_latest_pending_payment_tariff, lines 325-334
PayRead(c) ==
    LET id == LatestPendingId(c.db, c.a.user_id)
    IN  IF id = NULL THEN [c EXCEPT !.pc = "aw_read"]
        ELSE [c EXCEPT !.l.pay_id = id, !.l.pay_tariff = c.db.payments[id].tariff,
                       !.pc = IF c.db.payments[id].tariff # NoTariff
                              THEN "pay_tariff" ELSE "pay_approve"]

\* line 335
PayTariff(c) ==
    [c EXCEPT !.db = _set_subscription_tariff(c.db, c.a.user_id, c.l.pay_tariff),
              !.pc = "pay_approve"]

\* lines 337-340
PayApprove(c) ==
    [c EXCEPT !.db.payments[c.l.pay_id].status = "approved", !.pc = "aw_read"]

\* a gate that lets every payment through
AlreadyPaidNever(first_paid) == FALSE

\* the first-payment gate of _award_referrer_bonus_if_first_paid, line 365
AlreadyPaid(first_paid) == first_paid = 1

\* _award_referrer_bonus_if_first_paid, lines 350-366
AwardRead(c) ==
    LET row == c.db.users[c.a.user_id]
    IN  IF ~row.present THEN [c EXCEPT !.pc = "done"]
        ELSE IF AlreadyPaid(row.first_paid) THEN [c EXCEPT !.pc = "done"]
        ELSE [c EXCEPT !.l.awnow = c.now, !.l.referrer_id = row.referrer_id,
                       !.l.ref_bonus_awarded = row.ref_bonus_awarded,
                       !.l.first_paid = row.first_paid, !.pc = "aw_first_paid"]

\* a check that writes ref_bonus_awarded = 1 also when it has no referrer to credit
AwardFirstPaidMarksAll(c) ==
    LET d == [c.db EXCEPT !.users[c.a.user_id].first_paid = 1,
                          !.users[c.a.user_id].first_paid_at = c.l.awnow]
    IN  IF c.l.referrer_id = NULL \/ c.l.ref_bonus_awarded = 1
        THEN [c EXCEPT !.db = [d EXCEPT !.users[c.a.user_id].ref_bonus_awarded = 1],
                       !.pc = "done"]
        ELSE [c EXCEPT !.db = d, !.l.target = c.l.referrer_id,
                       !.l.days = BONUS_DAYS_FOR_REFERRER, !.l.cont = "aw_mark",
                       !.pc = "ad_read"]

\* lines 368-377: UPDATE users SET first_paid=1, first_paid_at; commit; the referrer test
AwardFirstPaid(c) ==
    LET d == [c.db EXCEPT !.users[c.a.user_id].first_paid = 1,
                          !.users[c.a.user_id].first_paid_at = c.l.awnow]
    IN  IF c.l.referrer_id = NULL \/ c.l.ref_bonus_awarded = 1
        THEN [c EXCEPT !.db = d, !.pc = "done"]
        ELSE [c EXCEPT !.db = d, !.l.target = c.l.referrer_id,
                       !.l.days = BONUS_DAYS_FOR_REFERRER, !.l.cont = "aw_mark",
                       !.pc = "ad_read"]

\* lines 379-383: UPDATE users SET ref_bonus_awarded=1; return the referrer
AwardMark(c) ==
    [c EXCEPT !.db.users[c.a.user_id].ref_bonus_awarded = 1,
              !.l.award_ret = c.l.referrer_id, !.pc = "done"]

AdminAddStep(c) ==
    CASE c.pc = "begin" -> AdminAddBegin(c)
      [] c.pc = "ad_read" -> AddDaysRead(c)
      [] c.pc = "ad_write" -> AddDaysWrite(c)
      [] c.pc = "pay_read" -> PayRead(c)
      [] c.pc = "pay_tariff" -> PayTariff(c)
      [] c.pc = "pay_approve" -> PayApprove(c)
      [] c.pc = "aw_read" -> AwardRead(c)
      [] c.pc = "aw_first_paid" -> AwardFirstPaid(c)
      [] c.pc = "aw_mark" -> AwardMark(c)

-----------------------------------------------------------------------------
(* main.start and referrals.apply_referral_on_start *)

\* the text of a /start message: the command, then an optional payload made of a
\* prefix and a rest; digits is the integer the rest spells, NULL when it spells none
NoPayload == [has |-> FALSE, prefix |-> "", digits |-> NULL]
RefPayload(n) == [has |-> TRUE, prefix |-> "ref_", digits |-> n]
StartTexts == {NoPayload} \cup {RefPayload(n) : n \in Ids}
              \cup {RefPayload(NULL), [has |-> TRUE, prefix |-> "promo", digits |-> 1]}

\* referrals.parse_referrer_id_from_start
\* a parse that accepts the caller's own id
parse_referrer_id_any(text, current_user_id) ==
    IF ~text.has THEN NULL
    ELSE IF text.prefix # "ref_" THEN NULL
    ELSE text.digits

parse_referrer_id_from_start(text, current_user_id) ==
    IF ~text.has THEN NULL
    ELSE IF text.prefix # "ref_" THEN NULL
    ELSE IF text.digits = NULL THEN NULL
    ELSE IF text.digits = current_user_id THEN NULL
    ELSE text.digits

StartLocals == [is_new |-> FALSE, referrer_id |-> NULL, adnow |-> NULL, row |-> NoSub,
                wrote |-> FALSE, ret |-> NULL]

\* main.start, line 460
StartExists(c) ==
    [c EXCEPT !.l.is_new = ~user_exists(c.db, c.a.user_id), !.pc = "st_upsert"]

\* apply_referral_on_start, lines 184-186: the payload is parsed before the store is read
ApplyBegin(c) ==
    LET referrer_id == parse_referrer_id_from_start(c.a.text, c.a.user_id)
    IN  IF referrer_id = NULL THEN [c EXCEPT !.pc = "done"]
        ELSE [c EXCEPT !.l.referrer_id = referrer_id, !.pc = "rf_read"]

\* main.start, lines 462-471: upsert_user, then apply_referral_on_start for a new user
StartUpsert(c) ==
    LET d == upsert_user(c.db, c.a.user_id, c.a.name)
    IN  IF ~c.l.is_new THEN [c EXCEPT !.db = d, !.pc = "done"]
        ELSE ApplyBegin([c EXCEPT !.db = d])

\* an apply_referral_on_start that does not look at the referrer already stored
RefReadUnchecked(c) ==
    LET row == c.db.users[c.a.user_id]
    IN  IF ~row.present THEN [c EXCEPT !.pc = "done"]
        ELSE [c EXCEPT !.pc = "rf_update"]

\* apply_referral_on_start, lines 188-196
RefRead(c) ==
    LET row == c.db.users[c.a.user_id]
    IN  IF ~row.present THEN [c EXCEPT !.pc = "done"]
        ELSE IF row.referrer_id # NULL THEN [c EXCEPT !.pc = "done"]
        ELSE [c EXCEPT !.pc = "rf_update"]

\* an UPDATE of the referrer without the IS NULL condition
RefUpdateAny(c) ==
    LET row == c.db.users[c.a.user_id]
    IN  IF row.present
        THEN [c EXCEPT !.db.users[c.a.user_id].referrer_id = c.l.referrer_id,
                       !.l.wrote = TRUE, !.pc = "rd_read"]
        ELSE [c EXCEPT !.pc = "rd_read"]

\* lines 198-202: UPDATE users SET referrer_id=? WHERE telegram_id=? AND referrer_id IS NULL
RefUpdate(c) ==
    LET row == c.db.users[c.a.user_id]
    IN  IF row.present /\ row.referrer_id = NULL
        THEN [c EXCEPT !.db.users[c.a.user_id].referrer_id = c.l.referrer_id,
                       !.l.wrote = TRUE, !.pc = "rd_read"]
        ELSE [c EXCEPT !.pc = "rd_read"]

\* add_days_to_subscription, lines 122-129
RefDaysRead(c) ==
    [c EXCEPT !.l.adnow = c.now, !.l.row = c.db.subscriptions[c.a.user_id], !.pc = "rd_write"]

\* a trial credited to the subscription of the referrer
RefDaysWriteToReferrer(c) ==
    LET u == c.l.referrer_id
        counted == [c.gh EXCEPT !.trial[c.a.user_id] = @ + 1]
    IN  IF ~c.db.subscriptions[u].present
        THEN [c EXCEPT !.db = RefInsertSub(c.db, u, TRIAL_DAYS_FOR_INVITEE, c.l.adnow),
                       !.gh = counted, !.cr[u] = @ + TRIAL_DAYS_FOR_INVITEE,
                       !.l.ret = c.l.referrer_id, !.pc = "done"]
        ELSE [c EXCEPT !.db = RefUpdateSub(c.db, u, TRIAL_DAYS_FOR_INVITEE, c.l.adnow,
                                           c.db.subscriptions[u]),
                       !.gh = counted, !.cr[u] = @ + TRIAL_DAYS_FOR_INVITEE,
                       !.l.ret = c.l.referrer_id, !.pc = "done"]

\* add_days_to_subscription, lines 131-164, then apply_referral_on_start returns the referrer
RefDaysWrite(c) ==
    LET u == c.a.user_id
        counted == [c.gh EXCEPT !.trial[u] = @ + 1]
    IN  IF ~c.l.row.present
        THEN IF c.db.subscriptions[u].present
             THEN [c EXCEPT !.pc = "raised"]
             ELSE [c EXCEPT !.db = RefInsertSub(c.db, u, TRIAL_DAYS_FOR_INVITEE, c.l.adnow),
                            !.gh = counted, !.cr[u] = @ + TRIAL_DAYS_FOR_INVITEE,
                            !.l.ret = c.l.referrer_id, !.pc = "done"]
        ELSE [c EXCEPT !.db = RefUpdateSub(c.db, u, TRIAL_DAYS_FOR_INVITEE, c.l.adnow, c.l.row),
                       !.gh = counted, !.cr[u] = @ + TRIAL_DAYS_FOR_INVITEE,
                       !.l.ret = c.l.referrer_id, !.pc = "done"]

StartStep(c) ==
    CASE c.pc = "begin" -> StartExists(c)
      [] c.pc = "st_upsert" -> StartUpsert(c)
      [] c.pc = "rf_read" -> RefRead(c)
      [] c.pc = "rf_update" -> RefUpdate(c)
      [] c.pc = "rd_read" -> RefDaysRead(c)
      [] c.pc = "rd_write" -> RefDaysWrite(c)

-----------------------------------------------------------------------------
(* The operator's key dialogue, the tariff button, the payment dialogue *)

\* message texts, as sequences of characters
Texts == {<<>>, <<" ", "a", "b", " ">>, <<" ", "k", "e", "y", "-", "1", " ">>}

\* str.strip
RECURSIVE LStrip(_)
LStrip(t) == IF t # <<>> /\ Head(t) = " " THEN LStrip(Tail(t)) ELSE t
RECURSIVE RStrip(_)
RStrip(t) == IF t # <<>> /\ t[Len(t)] = " " THEN RStrip(SubSeq(t, 1, Len(t) - 1)) ELSE t
Strip(t) == RStrip(LStrip(t))

\* admin.admin_key_start (lines 605-628) followed by admin.admin_key_receive
\* (lines 648-663) of the same operator: the store after the two handlers
AdminKeyDialogue(d, caller, u, key_type, text) ==
    LET key_value == Strip(text)
    IN  IF ~is_admin(caller) \/ key_type \notin KeyTypes \/ ~d.users[u].present THEN d
        ELSE IF key_value = <<>> \/ Len(key_value) < 5 THEN d
        ELSE _set_key(d, u, key_type, key_value, caller)

\* the FSM context of one chat in the key dialogue: no state set, or
\* AdminKeyStates.waiting_key with the data admin_key_start stored
NoDialogue == [state |-> "none", target_user_id |-> NULL, key_type |-> "none"]
KeyDialogues ==
    {NoDialogue} \cup [state : {"waiting_key"}, target_user_id : Ids, key_type : KeyTypes]

\* admin.admin_key_start, lines 605-628: the store and the chat's FSM context it leaves
admin_key_start(d, fsm, caller, u, key_type) ==
    IF ~is_admin(caller) \/ key_type \notin KeyTypes \/ ~d.users[u].present
    THEN [db |-> d, fsm |-> fsm]
    ELSE [db |-> d,
          fsm |-> [state |-> "waiting_key", target_user_id |-> u, key_type |-> key_type]]

\* admin.admin_key_cancel, lines 641-643
admin_key_cancel(d, fsm) == [db |-> d, fsm |-> NoDialogue]

\* admin.admin_key_receive, lines 648-663, which the dispatcher calls for a message in a
\* chat whose state is waiting_key
admin_key_receive(d, fsm, caller, text) ==
    LET key_value == Strip(text)
    IN  IF fsm.state # "waiting_key" THEN [db |-> d, fsm |-> fsm]
        ELSE IF ~is_admin(caller) THEN [db |-> d, fsm |-> NoDialogue]
        ELSE IF key_value = <<>> \/ Len(key_value) < 5 THEN [db |-> d, fsm |-> fsm]
        ELSE [db |-> _set_key(d, fsm.target_user_id, fsm.key_type, key_value, caller),
              fsm |-> NoDialogue]

\* admin.admin_set_tariff, lines 510-523
AdminSetTariffHandler(d, caller, u, tariff_code) ==
    IF ~is_admin(caller) \/ tariff_code \notin TariffCodes THEN d
    ELSE _set_subscription_tariff(d, u, tariff_code)

\* pay.pay_choose_tariff (lines 137-151) followed by pay.pay_waiting_screenshot
\* (lines 208-241) of the same user: the store after the two handlers
PayDialogue(d, u, tariff_code, has_image, t) ==
    IF tariff_code \notin TariffCodes \/ ~has_image THEN d
    ELSE [d EXCEPT !.payments = Append(@, [user_id |-> u, created_at |-> t,
                                            tariff |-> tariff_code, status |-> "pending"])]

\* pay.TARIFFS
PayCatalog == {"outline", "v2ray", "bundle"}

\* the FSM context of a chat in the payment dialogue: the state (PayStates) and the
\* tariff in its data; state.clear() leaves NoPayment
NoPayment == [state |-> "none", tariff |-> NoTariff]
PayStates == {"none", "choosing_tariff", "waiting_screenshot", "waiting_comment"}

\* pay.pay_start, lines 128-134: set_state keeps the data
pay_start(d, fsm) == [db |-> d, fsm |-> [fsm EXCEPT !.state = "choosing_tariff"]]

\* pay.pay_choose_tariff, lines 137-151
pay_choose_tariff(d, fsm, tariff_code) ==
    IF tariff_code \notin PayCatalog THEN [db |-> d, fsm |-> fsm]
    ELSE [db |-> d, fsm |-> [state |-> "waiting_screenshot", tariff |-> tariff_code]]

\* pay.pay_comment_start, lines 154-170
pay_comment_start(d, fsm) == [db |-> d, fsm |-> [fsm EXCEPT !.state = "waiting_comment"]]

\* pay.pay_comment_back, lines 173-185
pay_comment_back(d, fsm) == [db |-> d, fsm |-> [fsm EXCEPT !.state = "waiting_screenshot"]]

\* pay.pay_cancel, lines 188-192
pay_cancel(d, fsm) == [db |-> d, fsm |-> NoPayment]

\* pay.pay_waiting_comment, lines 195-205, called for a message in state waiting_comment
pay_waiting_comment(d, fsm, has_text) ==
    IF fsm.state # "waiting_comment" \/ ~has_text THEN [db |-> d, fsm |-> fsm]
    ELSE [db |-> d, fsm |-> [fsm EXCEPT !.state = "waiting_screenshot"]]

\* pay.pay_waiting_screenshot, lines 208-242, called for a message in state
\* waiting_screenshot: the tariff test, the image test, the INSERT and its commit, the
\* answer to the user (replied: it did not raise), then state.clear()
pay_waiting_screenshot(d, fsm, u, has_image, replied, t) ==
    IF fsm.state # "waiting_screenshot" THEN [db |-> d, fsm |-> fsm]
    ELSE IF fsm.tariff \notin PayCatalog THEN [db |-> d, fsm |-> NoPayment]
    ELSE IF ~has_image THEN [db |-> d, fsm |-> fsm]
    ELSE [db |-> [d EXCEPT !.payments = Append(@, [user_id |-> u, created_at |-> t,
                                                   tariff |-> fsm.tariff,
                                                   status |-> "pending"])],
          fsm |-> IF replied THEN NoPayment ELSE fsm]

-----------------------------------------------------------------------------
(* main.subscription_watcher *)

\* SELECT telegram_id, expires_at, warn_2d_sent, expired_sent, keys_deleted
\* FROM subscriptions WHERE expires_at IS NOT NULL AND expires_at != ''
WatcherIds(d) ==
    {u \in StoreIds : d.subscriptions[u].present /\ d.subscriptions[u].expires_at # NULL}

WatcherRow(d, u) ==
    [telegram_id |-> u,
     expires_at |-> d.subscriptions[u].expires_at,
     warn_2d_sent |-> d.subscriptions[u].warn_2d_sent,
     expired_sent |-> d.subscriptions[u].expired_sent,
     keys_deleted |-> d.subscriptions[u].keys_deleted]

\* a re-activation that clears expired_sent alone
ReactivateExpiredOnly(d, u) == [d EXCEPT !.subscriptions[u].expired_sent = 0]

\* a scan without the re-activation of lines 319-323
ReactivateNever(d, u) == d

\* lines 320-323
Reactivate(d, u) ==
    [d EXCEPT !.subscriptions[u].expired_sent = 0, !.subscriptions[u].keys_deleted = 0]

\* lines 333-336, 341-344, 355-358
SetWarnSent(d, u, v) == [d EXCEPT !.subscriptions[u].warn_2d_sent = v]
SetExpiredSent(d, u) == [d EXCEPT !.subscriptions[u].expired_sent = 1]

\* lines 364-372: UPDATE user_keys SET the three keys NULL, updated_by=0;
\* UPDATE subscriptions SET keys_deleted=1; commit
Revoke(d, u) ==
    LET k == IF d.user_keys[u].present
             THEN [d.user_keys[u] EXCEPT !.outline = NoKey, !.v2ray = NoKey, !.amnezia = NoKey,
                                         !.updated_by = 0]
             ELSE d.user_keys[u]
    IN  [d EXCEPT !.user_keys[u] = k, !.subscriptions[u].keys_deleted = 1]

\* the conditions of lines 316, 325, 340, 362
IsActive(exp_dt, t) == exp_dt > t
WarnDue(exp_dt, t) == exp_dt - t <= WARN_BEFORE
GraceOver(exp_dt, t) == t >= exp_dt + GRACE_AFTER_EXPIRE

\* a warning that is sent and never recorded
WarnStepNoMark(d, row, t, delivered) ==
    IF WarnDue(row.expires_at, t) /\ row.warn_2d_sent = 0
    THEN [db |-> d,
          ev |-> IF delivered THEN {"warn_attempt", "warn_sent"} ELSE {"warn_attempt"}]
    ELSE [db |-> d, ev |-> {}]

\* a warning whose flag is written before the send, whatever the send does
WarnStepMarkFirst(d, row, t, delivered) ==
    IF WarnDue(row.expires_at, t) /\ row.warn_2d_sent = 0
    THEN [db |-> SetWarnSent(d, row.telegram_id, 1),
          ev |-> IF delivered THEN {"warn_attempt", "warn_sent"} ELSE {"warn_attempt"}]
    ELSE [db |-> d, ev |-> {}]

\* lines 325-338: the warning is attempted; the flag is written after a send that did not raise
WarnStep(d, row, t, delivered) ==
    IF WarnDue(row.expires_at, t) /\ row.warn_2d_sent = 0
    THEN [db |-> IF delivered THEN SetWarnSent(d, row.telegram_id, 1) ELSE d,
          ev |-> IF delivered THEN {"warn_attempt", "warn_sent"} ELSE {"warn_attempt"}]
    ELSE [db |-> d, ev |-> {}]

\* a scan that never takes the warning flag back
ClearStepNever(d, row, t) == [db |-> d, ev |-> {}]

\* lines 340-344: the warning flag is cleared once the remaining time exceeds the threshold
ClearStep(d, row, t) ==
    IF ~WarnDue(row.expires_at, t) /\ row.warn_2d_sent = 1
    THEN [db |-> SetWarnSent(d, row.telegram_id, 0), ev |-> {"warn_cleared"}]
    ELSE [db |-> d, ev |-> {}]

\* an expiry notice sent on every scan past the expiry, whatever expired_sent says
ExpiredStepAlways(d, row, delivered) ==
    [db |-> IF delivered THEN SetExpiredSent(d, row.telegram_id) ELSE d,
     ev |-> IF delivered THEN {"expired_attempt", "expired_sent"} ELSE {"expired_attempt"}]

\* lines 347-360
ExpiredStep(d, row, delivered) ==
    IF row.expired_sent = 0
    THEN [db |-> IF delivered THEN SetExpiredSent(d, row.telegram_id) ELSE d,
          ev |-> IF delivered THEN {"expired_attempt", "expired_sent"} ELSE {"expired_attempt"}]
    ELSE [db |-> d, ev |-> {}]

\* a revocation that does not look at keys_deleted
RevokeStepAgain(d, row, t, delivered) ==
    IF GraceOver(row.expires_at, t)
    THEN [db |-> Revoke(d, row.telegram_id),
          ev |-> IF delivered THEN {"revoked", "notice_attempt", "notice_sent"}
                 ELSE {"revoked", "notice_attempt"}]
    ELSE [db |-> d, ev |-> {}]

\* a revocation that waits for its notice to be delivered
RevokeStepWhenDelivered(d, row, t, delivered) ==
    IF GraceOver(row.expires_at, t) /\ row.keys_deleted = 0 /\ delivered
    THEN [db |-> Revoke(d, row.telegram_id), ev |-> {"revoked", "notice_attempt", "notice_sent"}]
    ELSE [db |-> d, ev |-> {}]

\* lines 362-383
RevokeStep(d, row, t, delivered) ==
    IF GraceOver(row.expires_at, t) /\ row.keys_deleted = 0
    THEN [db |-> Revoke(d, row.telegram_id),
          ev |-> IF delivered THEN {"revoked", "notice_attempt", "notice_sent"}
                 ELSE {"revoked", "notice_attempt"}]
    ELSE [db |-> d, ev |-> {}]

\* lines 307-383, one row of the scan; o.first is the outcome of the warning or of the
\* expiry notice (one row attempts at most one of them), o.notice of the revocation notice
ProcessRow(d, row, t, o) ==
    LET u == row.telegram_id
        exp_dt == _parse_iso(row.expires_at)
    IN  IF exp_dt = NULL THEN [db |-> d, ev |-> {}]
        ELSE IF IsActive(exp_dt, t)
        THEN LET re == row.expired_sent = 1 \/ row.keys_deleted = 1
                 d1 == IF re THEN Reactivate(d, u) ELSE d
                 w == WarnStep(d1, row, t, o.first)
                 cl == ClearStep(w.db, row, t)
             IN  [db |-> cl.db,
                  ev |-> (IF re THEN {"reactivated"} ELSE {}) \cup w.ev \cup cl.ev]
        ELSE LET e == ExpiredStep(d, row, o.first)
                 r == RevokeStep(e.db, row, t, o.notice)
             IN  [db |-> r.db, ev |-> e.ev \cup r.ev]

Outcomes == [first : BOOLEAN, notice : BOOLEAN]
NoEvents == [u \in StoreIds |-> {}]

\* the outcomes of the sends of one scan: one per row of the SELECT
Delivered == [first |-> TRUE, notice |-> TRUE]
ScanOutcomes(d) ==
    {[u \in StoreIds |-> IF u \in WatcherIds(d) THEN f[u] ELSE Delivered] :
        f \in [WatcherIds(d) -> Outcomes]}

\* the rows of one scan in the order of the SELECT (the primary key)
RECURSIVE ScanRows(_, _, _, _, _, _)
ScanRows(d, subs, ev, todo, t, o) ==
    IF todo = {} THEN [db |-> d, ev |-> ev]
    ELSE LET u == CHOOSE x \in todo : \A y \in todo : x <= y
             r == ProcessRow(d, subs[u], t, o[u])
         IN  ScanRows(r.db, subs, [ev EXCEPT ![u] = r.ev], todo \ {u}, t, o)

\* lines 297-385: now, the SELECT, the loop over its rows, the commit
ScanOnce(d, t, o) ==
    ScanRows(d, [u \in WatcherIds(d) |-> WatcherRow(d, u)], NoEvents, WatcherIds(d), t, o)

\* The scan with one store statement that raises.  A fault names a row of the SELECT and
\* the statement of that row that raises, if the scan comes to execute it.
FaultPoints == {"reactivate", "warn_write", "clear", "expired_write",
                "keys_write", "flag_write", "revoke_commit"}
NoFault == [u |-> NULL, at |-> "none"]
ScanFaults(d) == {NoFault} \cup [u : WatcherIds(d), at : FaultPoints]

\* lines 307-383 for one row on the connection's uncommitted store w: `aborted` when a
\* statement outside every try raised (lines 319-323, 340-344), `commit` when the commit
\* of line 372 was executed
ProcessRowF(w, row, t, o, f) ==
    LET u == row.telegram_id
        exp_dt == _parse_iso(row.expires_at)
        F(p) == f.u = u /\ f.at = p
        Result(d, commit, aborted, ev) ==
            [db |-> d, commit |-> commit, aborted |-> aborted, ev |-> ev]
    IN  IF exp_dt = NULL THEN Result(w, FALSE, FALSE, {})
        ELSE IF IsActive(exp_dt, t)
        THEN LET re == row.expired_sent = 1 \/ row.keys_deleted = 1
                 d1 == IF re THEN Reactivate(w, u) ELSE w
                 ws == WarnStep(d1, row, t, o.first)
                 wr == IF F("warn_write") THEN [db |-> d1, ev |-> ws.ev] ELSE ws
                 cl == ClearStep(wr.db, row, t)
                 ev1 == IF re THEN {"reactivated"} ELSE {}
             IN  IF re /\ F("reactivate") THEN Result(w, FALSE, TRUE, {})
                 ELSE IF cl.ev # {} /\ F("clear") THEN Result(wr.db, FALSE, TRUE, ev1 \cup wr.ev)
                 ELSE Result(cl.db, FALSE, FALSE, ev1 \cup wr.ev \cup cl.ev)
        ELSE LET es == ExpiredStep(w, row, o.first)
                 e == IF F("expired_write") THEN [db |-> w, ev |-> es.ev] ELSE es
                 due == GraceOver(row.expires_at, t) /\ row.keys_deleted = 0
                 keys == [e.db EXCEPT !.user_keys[u] = Revoke(e.db, u).user_keys[u]]
             IN  IF ~due THEN Result(e.db, FALSE, FALSE, e.ev)
                 \* line 364 raised: nothing written, the except of 382 swallows it
                 ELSE IF F("keys_write") THEN Result(e.db, FALSE, FALSE, e.ev)
                 \* line 368 raised: the credentials are cleared on the connection
                 ELSE IF F("flag_write") THEN Result(keys, FALSE, FALSE, e.ev)
                 \* line 372 raised: both writes stay on the connection, no notice
                 ELSE IF F("revoke_commit")
                      THEN Result(Revoke(e.db, u), FALSE, FALSE, e.ev \cup {"revoked"})
                 ELSE LET r == RevokeStep(e.db, row, t, o.notice)
                      IN  Result(r.db, TRUE, FALSE, e.ev \cup r.ev)

\* the loop of lines 305-383 over the rows of the SELECT: w is the connection's store,
\* c the committed one, done the rows whose processing was begun
RECURSIVE ScanRowsF(_, _, _, _, _, _, _, _, _)
ScanRowsF(w, c, subs, ev, todo, done, t, o, f) ==
    \* line 385: the commit after the loop
    IF todo = {} THEN [db |-> w, committed |-> c, ev |-> ev, processed |-> done,
                       aborted |-> FALSE]
    ELSE LET u == CHOOSE x \in todo : \A y \in todo : x <= y
             r == ProcessRowF(w, subs[u], t, o[u], f)
         IN  \* lines 387-388: the connection closes without a commit
             IF r.aborted
             THEN [db |-> c, committed |-> c, ev |-> [ev EXCEPT ![u] = r.ev],
                   processed |-> done \cup {u}, aborted |-> TRUE]
             ELSE ScanRowsF(r.db, IF r.commit THEN r.db ELSE c, subs,
                            [ev EXCEPT ![u] = r.ev], todo \ {u}, done \cup {u}, t, o, f)

\* lines 294-388: one scan of the watcher in which the statement named by f raises
ScanOnceF(d, t, o, f) ==
    ScanRowsF(d, d, [u \in WatcherIds(d) |-> WatcherRow(d, u)], NoEvents, WatcherIds(d), {},
              t, o, f)

\* The scan one await at a time.  sc is the watcher's position: the instant and the
\* rows it read (lines 295-303), the rows still to process, the row in hand and the
\* step of the loop body that comes next; quiet and n record whether any handler
\* invocation was in flight when the SELECT ran and how many had arrived by then,
\* raised whether the pass the loop has just made ended in the except of line 387.
IdleScan == [pc |-> "idle", t |-> NULL, subs |-> <<>>, todo |-> {}, u |-> NULL,
             quiet |-> FALSE, n |-> 0, raised |-> FALSE]

\* the head of the for loop, line 305; after the last row, the commit of line 385
ScanNextRow(sc) ==
    IF sc.todo = {}
    THEN [sc EXCEPT !.pc = "idle", !.u = NULL]
    ELSE LET u == CHOOSE x \in sc.todo : \A y \in sc.todo : x <= y
         IN  [sc EXCEPT !.u = u, !.todo = @ \ {u},
                        !.pc = IF IsActive(_parse_iso(sc.subs[u].expires_at), sc.t)
                               THEN "reactivate" ELSE "expired"]

\* lines 295-303
ScanSelect(d, t, sc, quiet, n) ==
    ScanNextRow([sc EXCEPT !.t = t, !.subs = [u \in WatcherIds(d) |-> WatcherRow(d, u)],
                           !.todo = WatcherIds(d), !.quiet = quiet, !.n = n])

\* one step of the loop body for the row in hand, on the store as it is now, with
\* the values of the row as the SELECT read them: the new store and position
ScanStep(d, sc, delivered) ==
    LET row == sc.subs[sc.u]
    IN  CASE sc.pc = "reactivate" ->
                 [db |-> IF row.expired_sent = 1 \/ row.keys_deleted = 1
                         THEN Reactivate(d, sc.u) ELSE d,
                  sc |-> [sc EXCEPT !.pc = "warn"]]
          [] sc.pc = "warn" ->
                 [db |-> WarnStep(d, row, sc.t, delivered).db, sc |-> [sc EXCEPT !.pc = "clear"]]
          [] sc.pc = "clear" ->
                 [db |-> ClearStep(d, row, sc.t).db, sc |-> ScanNextRow(sc)]
          [] sc.pc = "expired" ->
                 [db |-> ExpiredStep(d, row, delivered).db, sc |-> [sc EXCEPT !.pc = "revoke"]]
          [] sc.pc = "revoke" ->
                 [db |-> RevokeStep(d, row, sc.t, delivered).db, sc |-> ScanNextRow(sc)]

-----------------------------------------------------------------------------
(* The sequential specification: handlers run one at a time, each to its end *)

NoCredits == [u \in StoreIds |-> 0]

Ctx(a, l) == [pc |-> "begin", db |-> db, now |-> now, a |-> a, l |-> l, gh |-> gh, cr |-> NoCredits]

Ended(c) == c.pc \in {"done", "raised"}

RECURSIVE RunAdminAdd(_)
RunAdminAdd(c) == IF Ended(c) THEN c ELSE RunAdminAdd(AdminAddStep(c))

RECURSIVE RunStart(_)
RunStart(c) == IF Ended(c) THEN c ELSE RunStart(StartStep(c))

\* admin.admin_add, run to its end from the current state
AdminAddRun(caller, u, months) ==
    RunAdminAdd(Ctx([caller |-> caller, user_id |-> u, months |-> months], AdminLocals))

\* admin._award_referrer_bonus_if_first_paid, run to its end on store d at the current
\* instant: the store it leaves, the value it returns, the days it credited
_award_referrer_bonus_if_first_paid(d, user_id) ==
    LET c == RunAdminAdd([pc |-> "aw_read", db |-> d, now |-> now,
                          a |-> [caller |-> NULL, user_id |-> user_id, months |-> 0],
                          l |-> AdminLocals, gh |-> gh, cr |-> NoCredits])
    IN  [db |-> c.db, ret |-> c.l.award_ret, cr |-> c.cr]

\* main.start, run to its end from the current state
StartRun(u, text, name) ==
    RunStart(Ctx([user_id |-> u, text |-> text, name |-> name], StartLocals))

\* referrals.apply_referral_on_start, run to its end on store d at the current instant
apply_referral_on_start(d, new_user_id, start_text) ==
    RunStart(ApplyBegin([pc |-> "begin", db |-> d, now |-> now,
                         a |-> [user_id |-> new_user_id, text |-> start_text, name |-> ""],
                         l |-> StartLocals, gh |-> gh, cr |-> NoCredits]))

Callers == ADMIN_IDS \cup {1}
Months == {1, 5}
Names == {"n1"}

Init ==
    /\ now = 0
    /\ db = EmptyDb
    /\ gh = [bonus |-> NoCredits, trial |-> NoCredits, grants |-> 0, keysets |-> 0]
    /\ procs = <<>>
    /\ script = 0
    /\ scan = IdleScan
    /\ payfsm = [u \in Ids |-> NoPayment]

\* the instants at which the watcher's view of some subscription changes: the warning
\* becomes due, the period ends, the grace period ends
Thresholds(d) ==
    UNION {{d.subscriptions[u].expires_at - WARN_BEFORE, d.subscriptions[u].expires_at,
            d.subscriptions[u].expires_at + GRACE_AFTER_EXPIRE} : u \in WatcherIds(d)}

\* time passes, up to one of these instants
Advance ==
    /\ \E t \in Thresholds(db) : t > now /\ t <= MaxDays * Day /\ now' = t
    /\ UNCHANGED <<db, gh, procs, script, scan, payfsm>>

\* main.start
Start(u, text, name) ==
    LET c == StartRun(u, text, name)
    IN  /\ db' = c.db
        /\ gh' = c.gh
        /\ UNCHANGED <<now, procs, script, scan, payfsm>>

\* admin.admin_add
AdminAdd(caller, u, months) ==
    LET c == AdminAddRun(caller, u, months)
        granted == c.l.ret = "granted"
    IN  /\ granted => gh.grants < MaxGrants
        /\ db' = c.db
        /\ gh' = IF granted THEN [c.gh EXCEPT !.grants = @ + 1] ELSE c.gh
        /\ UNCHANGED <<now, procs, script, scan, payfsm>>

\* one pass of main.subscription_watcher
Scan ==
    \E o \in ScanOutcomes(db) :
        /\ LET r == ScanOnce(db, now, o)
           IN  db' = r.db
        /\ UNCHANGED <<now, gh, procs, script, scan, payfsm>>

\* the operator sets a key
AdminKey(caller, u, key_type, text) ==
    LET d == AdminKeyDialogue(db, caller, u, key_type, text)
    IN  /\ d # db => gh.keysets < MaxKeySets
        /\ db' = d
        /\ gh' = IF d # db THEN [gh EXCEPT !.keysets = @ + 1] ELSE gh
        /\ UNCHANGED <<now, procs, script, scan, payfsm>>

\* the operator sets a tariff
AdminSetTariff(caller, u, tariff_code) ==
    /\ db' = AdminSetTariffHandler(db, caller, u, tariff_code)
    /\ UNCHANGED <<now, gh, procs, script, scan, payfsm>>

\* a user submits a payment proof
PaySubmit(u, tariff_code, has_image) ==
    /\ Len(db.payments) < MaxPayments
    /\ db' = PayDialogue(db, u, tariff_code, has_image, now)
    /\ UNCHANGED <<now, gh, procs, script, scan, payfsm>>

InputKeyTypes == {"outline"}
InputTariffs == {"bundle", "free"}

Next ==
    \/ Advance
    \/ \E caller \in Callers, u \in Ids, k \in InputKeyTypes, text \in Texts : AdminKey(caller, u, k, text)
    \/ \E u \in Ids, text \in StartTexts, name \in Names : Start(u, text, name)
    \/ \E caller \in Callers, u \in Ids, months \in Months : AdminAdd(caller, u, months)
    \/ Scan

Spec == Init /\ [][Next]_vars

-----------------------------------------------------------------------------
(* The interleaving specification: the dispatcher runs every update in a task of *)
(* its own, so handler invocations overlap and interleave at their awaits, which *)
(* are the store statements                                                      *)

HandlerStep(op, c) == IF op = "admin_add" THEN AdminAddStep(c) ELSE StartStep(c)

\* an update arrives: a new invocation
Spawn(op, a, l) ==
    /\ Len(procs) < MaxProcs
    /\ procs' = Append(procs, [op |-> op, pc |-> "begin", a |-> a, l |-> l,
                               cr |-> NoCredits])
    /\ UNCHANGED <<now, db, gh, script, scan, payfsm>>

\* invocation i runs up to its next await
StepProc(i) ==
    LET p == procs[i]
        c == HandlerStep(p.op, [pc |-> p.pc, db |-> db, now |-> now, a |-> p.a, l |-> p.l,
                                gh |-> gh, cr |-> p.cr])
    IN  /\ ~Ended(p)
        /\ db' = c.db
        /\ gh' = c.gh
        /\ procs' = [procs EXCEPT ![i] =
               [op |-> p.op, pc |-> c.pc, a |-> p.a, l |-> c.l, cr |-> c.cr]]
        /\ UNCHANGED <<now, script, scan, payfsm>>

RaceTexts == {NoPayload} \cup {RefPayload(n) : n \in StoreIds}

NextRace ==
    \/ \E u \in Ids, text \in RaceTexts, name \in Names :
           Spawn("start", [user_id |-> u, text |-> text, name |-> name], StartLocals)
    \/ \E u \in Ids :
           Spawn("admin_add", [caller |-> 7, user_id |-> u, months |-> 1], AdminLocals)
    \/ \E i \in 1..Len(procs) : StepProc(i)

SpecRace == Init /\ [][NextRace]_vars

-----------------------------------------------------------------------------
(* The scenario specification: one subscription followed from its first grant to *)
(* its renewal after the revocation, the other user's subscription running along *)

\* admin._add_days, run to its end on the current store
_add_days(user_id, days) ==
    RunAdminAdd([pc |-> "ad_read", db |-> db, now |-> now,
                 a |-> [caller |-> 0, user_id |-> user_id, months |-> 0],
                 l |-> [AdminLocals EXCEPT !.days = days, !.target = user_id, !.cont = "done"],
                 gh |-> gh, cr |-> NoCredits])

\* what happens, in order: the grants, the instants (minutes after the first grant) the
\* clock is moved to, the scans
Timeline ==
    <<[cmd |-> "extend", arg |-> 30], [cmd |-> "clock", arg |-> 29 * Day],
      [cmd |-> "scan", arg |-> 0], [cmd |-> "clock", arg |-> 29 * Day + 1],
      [cmd |-> "scan", arg |-> 0], [cmd |-> "clock", arg |-> 31 * Day],
      [cmd |-> "scan", arg |-> 0], [cmd |-> "clock", arg |-> 33 * Day],
      [cmd |-> "scan", arg |-> 0], [cmd |-> "clock", arg |-> 34 * Day],
      [cmd |-> "extend", arg |-> 10]>>

StartInstants == {0, 7, 3 * Day}
SomeKey == <<"k", "e", "y", "-", "1">>

\* the stores the scenario starts from: the user has no subscription, has or has not
\* started the bot and been given keys; the other user has no subscription or one
\* that the operator granted earlier
ScenarioStores(u, t0) ==
    LET v == CHOOSE x \in Ids : x # u
        users == {EmptyDb, upsert_user(EmptyDb, u, "n1")}
        keyed == users \cup {_set_key(d, u, "outline", SomeKey, 7) : d \in users}
                       \cup {_set_key(_set_key(d, u, "outline", SomeKey, 7),
                                      u, "amnezia", SomeKey, 7) : d \in users}
    IN  keyed \cup {AdminInsertSub(d, v, 30, t0) : d \in keyed}
              \cup {AdminInsertSub(d, v, 1, t0) : d \in keyed}

InitScenario ==
    /\ \E u \in Ids, t0 \in StartInstants :
           /\ now = t0
           /\ db \in ScenarioStores(u, t0)
           /\ script = [step |-> 0, u |-> u, t0 |-> t0, ev |-> {}]
    /\ gh = [bonus |-> NoCredits, trial |-> NoCredits, grants |-> 0, keysets |-> 0]
    /\ procs = <<>>
    /\ scan = IdleScan
    /\ payfsm = [u \in Ids |-> NoPayment]

ScenarioCmd == Timeline[script.step + 1]

ScenarioExtend ==
    /\ script.step < Len(Timeline)
    /\ ScenarioCmd.cmd = "extend"
    /\ db' = _add_days(script.u, ScenarioCmd.arg).db
    /\ script' = [script EXCEPT !.step = @ + 1, !.ev = {}]
    /\ UNCHANGED <<now, gh, procs, scan, payfsm>>

ScenarioClock ==
    /\ script.step < Len(Timeline)
    /\ ScenarioCmd.cmd = "clock"
    /\ now' = script.t0 + ScenarioCmd.arg
    /\ script' = [script EXCEPT !.step = @ + 1, !.ev = {}]
    /\ UNCHANGED <<db, gh, procs, scan, payfsm>>

\* a scan in which every send to the user of the scenario is delivered
ScenarioScan ==
    /\ script.step < Len(Timeline)
    /\ ScenarioCmd.cmd = "scan"
    /\ \E o \in ScanOutcomes(db) :
           /\ o[script.u] = Delivered
           /\ LET r == ScanOnce(db, now, o)
              IN  /\ db' = r.db
                  /\ script' = [script EXCEPT !.step = @ + 1, !.ev = r.ev[script.u]]
    /\ UNCHANGED <<now, gh, procs, scan, payfsm>>

NextScenario == ScenarioExtend \/ ScenarioClock \/ ScenarioScan

SpecScenario == InitScenario /\ [][NextScenario]_vars

-----------------------------------------------------------------------------
(* The overlap specification: the watcher's pass runs one await at a time among *)
(* the steps of the operator's grants, and time passes                          *)

\* the watcher wakes up: now, the SELECT
WatcherSelect ==
    /\ scan.pc = "idle"
    /\ WatcherIds(db) # {}
    /\ scan' = ScanSelect(db, now, scan, \A i \in 1..Len(procs) : Ended(procs[i]), Len(procs))
    /\ UNCHANGED <<now, db, gh, procs, script, payfsm>>

\* the watcher runs up to its next await
WatcherStep ==
    /\ scan.pc # "idle"
    /\ \E delivered \in BOOLEAN :
           LET r == ScanStep(db, scan, delivered)
           IN  db' = r.db /\ scan' = r.sc
    /\ UNCHANGED <<now, gh, procs, script, payfsm>>

NextOverlap ==
    \/ Advance
    \/ \E u \in Ids :
           /\ Len(procs) < MaxExtends
           /\ Spawn("admin_add", [caller |-> 7, user_id |-> u, months |-> 1], AdminLocals)
    \/ \E i \in 1..Len(procs) : StepProc(i)
    \/ WatcherSelect
    \/ WatcherStep

SpecOverlap == Init /\ [][NextOverlap]_vars

-----------------------------------------------------------------------------
(* The loop specification: the watcher's task alternates a pass and a sleep for  *)
(* ever; a pass may meet a store statement that raises, among them the SELECT   *)
(* and the last commit, and sends that fail                                      *)

\* the statements of a pass that can raise: those of a row, the SELECT of lines
\* 298-303, the commit of line 385
LoopFaults(d) ==
    ScanFaults(d) \cup {[u |-> NULL, at |-> "select"], [u |-> NULL, at |-> "commit"]}

\* lines 294-388: the store a pass leaves and whether it ended in the except of 387
PassOnce(d, t, o, f) ==
    IF f.at = "select" THEN [db |-> d, aborted |-> TRUE]
    ELSE LET r == ScanOnceF(d, t, o, f)
         IN  IF f.at = "commit" THEN [db |-> r.committed, aborted |-> TRUE]
             ELSE [db |-> r.db, aborted |-> r.aborted]

\* the sends of one pass fare alike for every row
LoopOutcomes == {[u \in StoreIds |-> x] : x \in Outcomes}

\* a task whose loop body has no outer except: a raised statement ends the task
AfterPassUncaught(sc, aborted) ==
    [sc EXCEPT !.pc = IF aborted THEN "dead" ELSE "sleep", !.raised = aborted]

\* lines 387-390: the except swallows what the pass raised, the task goes to sleep
AfterPass(sc, aborted) == [sc EXCEPT !.pc = "sleep", !.raised = aborted]

\* one pass of the loop
LoopPass(o, f) ==
    /\ scan.pc = "idle"
    /\ LET r == PassOnce(db, now, o, f)
       IN  db' = r.db /\ scan' = AfterPass(scan, r.aborted)
    /\ UNCHANGED <<now, gh, procs, script, payfsm>>

\* line 390: asyncio.sleep returns
LoopWake ==
    /\ scan.pc = "sleep"
    /\ scan' = [scan EXCEPT !.pc = "idle", !.raised = FALSE]
    /\ UNCHANGED <<now, db, gh, procs, script, payfsm>>

\* the users that act while the loop is followed, and what they send: user 2 arrives
\* by the referral link of user 1, who owns a subscription only through the bonus
LoopUsers == {2}
LoopTexts == {RefPayload(1)}
LoopKeyTexts == {<<" ", "k", "e", "y", "-", "1", " ">>}

\* passes in which no statement raises, and those in which every send is delivered too
PassNoFault == \E o \in LoopOutcomes : LoopPass(o, NoFault)
PassDelivered == LoopPass([u \in StoreIds |-> Delivered], NoFault)

NextLoop ==
    \/ Advance
    \/ \E u \in LoopUsers, text \in LoopTexts, name \in Names : Start(u, text, name)
    \/ \E u \in LoopUsers : gh.grants < MaxLoopGrants /\ AdminAdd(7, u, 1)
    \/ \E u \in LoopUsers, text \in LoopKeyTexts : AdminKey(7, u, "outline", text)
    \/ \E o \in LoopOutcomes, f \in LoopFaults(db) : LoopPass(o, f)
    \/ LoopWake

\* the sleep returns, and passes in which no statement raises recur
SpecLoop == Init /\ [][NextLoop]_vars /\ WF_vars(LoopWake) /\ SF_vars(PassNoFault)

\* the sleep returns, and passes in which no statement raises and every send is
\* delivered recur
SpecLoopDelivering == Init /\ [][NextLoop]_vars /\ WF_vars(LoopWake) /\ SF_vars(PassDelivered)

-----------------------------------------------------------------------------
(* The payment specification: users submit payment proofs, the operator grants *)
(* months (which links the latest pending payment) and sets tariffs by hand    *)

PayTariffs == {"outline", "bundle", "free"}

\* admin._apply_latest_pending_payment_tariff on store d: the store it leaves and the
\* value it returns
RECURSIVE RunApply(_)
RunApply(c) ==
    IF c.pc \in {"pay_read", "pay_tariff", "pay_approve"} THEN RunApply(AdminAddStep(c)) ELSE c

_apply_latest_pending_payment_tariff(d, user_id) ==
    LET c == RunApply([pc |-> "pay_read", db |-> d, now |-> now,
                       a |-> [caller |-> NULL, user_id |-> user_id, months |-> 0],
                       l |-> AdminLocals, gh |-> gh, cr |-> NoCredits])
    IN  [db |-> c.db, ret |-> c.l.pay_tariff]

NextPay ==
    \/ \E u \in Ids, tariff_code \in PayTariffs, has_image \in BOOLEAN :
           PaySubmit(u, tariff_code, has_image)
    \/ \E caller \in Callers, u \in Ids, months \in Months : AdminAdd(caller, u, months)
    \/ \E caller \in Callers, u \in Ids, tariff_code \in PayTariffs :
           AdminSetTariff(caller, u, tariff_code)

SpecPay == Init /\ [][NextPay]_vars

\* users arrive, plainly or by a referral link, submit payment proofs, and the
\* operator grants months
GrantTexts == {NoPayload} \cup {RefPayload(n) : n \in Ids}

NextGrant ==
    \/ \E u \in Ids, text \in GrantTexts, name \in Names : Start(u, text, name)
    \/ \E u \in Ids, tariff_code \in PayTariffs, has_image \in BOOLEAN :
           PaySubmit(u, tariff_code, has_image)
    \/ \E caller \in Callers, u \in Ids, months \in Months : AdminAdd(caller, u, months)

SpecGrant == Init /\ [][NextGrant]_vars

-----------------------------------------------------------------------------
(* The dialogue specification: each user's chat goes through the payment dialogue, *)
(* one handler per update                                                          *)

\* what a button press carries as tariff: the catalog and a code that is not in it
DialogueTariffs == {"outline", "bundle", "free"}

\* a handler of the payment dialogue has run for user u and left r
PayHandled(u, r) ==
    /\ db' = r.db
    /\ payfsm' = [payfsm EXCEPT ![u] = r.fsm]
    /\ UNCHANGED <<now, gh, procs, script, scan>>

PayStart(u) == PayHandled(u, pay_start(db, payfsm[u]))
PayChooseTariff(u, tariff_code) == PayHandled(u, pay_choose_tariff(db, payfsm[u], tariff_code))
PayCommentStart(u) == PayHandled(u, pay_comment_start(db, payfsm[u]))
PayCommentBack(u) == PayHandled(u, pay_comment_back(db, payfsm[u]))
PayCancel(u) == PayHandled(u, pay_cancel(db, payfsm[u]))
PayWaitingComment(u, has_text) ==
    /\ payfsm[u].state = "waiting_comment"
    /\ PayHandled(u, pay_waiting_comment(db, payfsm[u], has_text))
PayWaitingScreenshot(u, has_image, replied) ==
    /\ payfsm[u].state = "waiting_screenshot"
    /\ Len(db.payments) < MaxPayments
    /\ PayHandled(u, pay_waiting_screenshot(db, payfsm[u], u, has_image, replied, now))

NextDialogue ==
    \/ \E u \in Ids : PayStart(u)
    \/ \E u \in Ids, tariff_code \in DialogueTariffs : PayChooseTariff(u, tariff_code)
    \/ \E u \in Ids : PayCommentStart(u)
    \/ \E u \in Ids : PayCommentBack(u)
    \/ \E u \in Ids : PayCancel(u)
    \/ \E u \in Ids, has_text \in BOOLEAN : PayWaitingComment(u, has_text)
    \/ \E u \in Ids, has_image \in BOOLEAN, replied \in BOOLEAN :
           PayWaitingScreenshot(u, has_image, replied)

SpecDialogue == Init /\ [][NextDialogue]_vars

-----------------------------------------------------------------------------
(* The claims *)

Sub(u) == db.subscriptions[u]

\* C1: the first-payment bonus is credited to the referrer at most once per referee,
\* however the admin_add invocations for that referee overlap
C1_BonusAtMostOnce == \A u \in Ids : gh.bonus[u] <= 1

\* the base the extension rule names: the previous expiry when it is set and lies
\* strictly after now, else now
ClaimedBase(prev, t) == IF prev # NULL /\ prev > t THEN prev ELSE t

\* what a handler that ended in context c did to the expiry of every subscription:
\* a credited one ends at base + days and not before its previous expiry, the others
\* keep their expiry
ExtendedByRule(c) ==
    \A v \in Ids :
        LET prev == Sub(v).expires_at
            new == c.db.subscriptions[v].expires_at
        IN  IF c.cr[v] > 0
            THEN new = ClaimedBase(prev, now) + c.cr[v] * Day /\ new >= prev
            ELSE new = prev

\* C2: every credit, through the operator grant, the referral bonus or the referral
\* trial, sets expires_at to base + days, where base is the previous expires_at if it
\* is set and strictly after now and is now otherwise; expires_at never decreases
C2_ExtendFromBase ==
    /\ \A caller \in Callers, u \in Ids, months \in Months :
           ExtendedByRule(AdminAddRun(caller, u, months))
    /\ \A u \in Ids, text \in StartTexts, name \in Names :
           ExtendedByRule(StartRun(u, text, name))

\* a subscription that was extended after it had lapsed: its days do not add up to
\* its expiry
C2_Witness ==
    \E u \in Ids : /\ Sub(u).present
                   /\ Sub(u).period_days > DAYS_PER_MONTH
                   /\ Sub(u).expires_at > Sub(u).purchased_at + Sub(u).period_days * Day
\* C3: in every reachable state a subscription with keys_deleted = 1 has
\* expired_sent = 1, also when the expiry notice could never be delivered and the
\* grace period has elapsed
C3_RevokedImpliesExpiredSent ==
    \A u \in Ids : Sub(u).keys_deleted = 1 => Sub(u).expired_sent = 1

Flags(d, u) ==
    <<d.subscriptions[u].warn_2d_sent, d.subscriptions[u].expired_sent,
      d.subscriptions[u].keys_deleted>>

\* nothing the first scan delivered is delivered again by the second
NoDuplicate(e1, e2) ==
    /\ "warn_sent" \in e1 => "warn_sent" \notin e2
    /\ "expired_sent" \in e1 => "expired_sent" \notin e2
    /\ "notice_sent" \in e1 => "notice_sent" \notin e2

\* a flag that the second scan leaves as the first did, or sets because it delivers
\* the notification the first scan attempted in vain
SameOrRetried(f1, f2, e1, e2, attempt, sent) ==
    \/ f2 = f1
    \/ f1 = 0 /\ f2 = 1 /\ attempt \in e1 /\ sent \notin e1 /\ sent \in e2

\* the outcomes of one scan in which the revocation notices, which no flag depends on,
\* all fare alike
ScanOutcomesC4(d) == {o \in ScanOutcomes(d) : \A u, v \in Ids : o[u].notice = o[v].notice}

\* C4 as stated: two scans in immediate succession, no time passing and no credit in
\* between: the three flags of every subscription after the second scan are those after
\* the first, and the second scan delivers nothing the first delivered
C4_ScanTwiceSameFlags ==
    \A o1 \in ScanOutcomesC4(db) :
        LET r1 == ScanOnce(db, now, o1)
        IN  \A o2 \in ScanOutcomesC4(r1.db) :
                LET r2 == ScanOnce(r1.db, now, o2)
                IN  \A u \in Ids : /\ Flags(r2.db, u) = Flags(r1.db, u)
                                   /\ NoDuplicate(r1.ev[u], r2.ev[u])

\* C4 as amended: two scans in immediate succession, no time passing and no credit in
\* between: keys_deleted after the second scan is as after the first; warn_2d_sent and
\* expired_sent are too, except that a flag whose notification the first scan attempted
\* and failed to deliver is 1 when the second scan delivers it; the second scan
\* delivers nothing the first delivered
C4_ScanTwiceSameUnlessRetried ==
    \A o1 \in ScanOutcomesC4(db) :
        LET r1 == ScanOnce(db, now, o1)
        IN  \A o2 \in ScanOutcomesC4(r1.db) :
                LET r2 == ScanOnce(r1.db, now, o2)
                IN  \A u \in Ids :
                        LET f1 == Flags(r1.db, u)
                            f2 == Flags(r2.db, u)
                        IN  /\ f2[3] = f1[3]
                            /\ SameOrRetried(f1[1], f2[1], r1.ev[u], r2.ev[u],
                                             "warn_attempt", "warn_sent")
                            /\ SameOrRetried(f1[2], f2[2], r1.ev[u], r2.ev[u],
                                             "expired_attempt", "expired_sent")
                            /\ NoDuplicate(r1.ev[u], r2.ev[u])
                            /\ r2.db.user_keys = r1.db.user_keys

\* a state from which a first scan fails to deliver a warning and a second scan, at
\* the same instant, delivers it
C4_Witness ==
    \E u \in Ids, o1 \in ScanOutcomes(db), o2 \in ScanOutcomes(db) :
        LET r1 == ScanOnce(db, now, o1)
            r2 == ScanOnce(r1.db, now, o2)
        IN  /\ "warn_attempt" \in r1.ev[u] /\ "warn_sent" \notin r1.ev[u]
            /\ "warn_sent" \in r2.ev[u]
            /\ Flags(r2.db, u) # Flags(r1.db, u)

\* a store d2 that some operation made of the current one: a subscription whose
\* keys_deleted went from 1 to 0 expires after now
ClearedOnlyWhenExtended(d2) ==
    \A u \in Ids :
        (Sub(u).keys_deleted = 1 /\ d2.subscriptions[u].keys_deleted = 0)
            => d2.subscriptions[u].expires_at > now

\* C5: once keys_deleted = 1, a scan of the lapsed subscription leaves keys_deleted = 1,
\* does not touch the user's keys and sends no revocation notice; keys_deleted returns
\* to 0 only when the expiry has been moved into the future
C5_RevokedOnce ==
    /\ \A u \in Ids :
           (Sub(u).keys_deleted = 1 /\ Sub(u).expires_at <= now) =>
               \A o \in ScanOutcomes(db) :
                   LET r == ScanOnce(db, now, o)
                   IN  /\ r.db.subscriptions[u].keys_deleted = 1
                       /\ r.db.user_keys[u] = db.user_keys[u]
                       /\ r.ev[u] \cap {"revoked", "notice_attempt", "notice_sent"} = {}
    /\ \A o \in ScanOutcomes(db) : ClearedOnlyWhenExtended(ScanOnce(db, now, o).db)
    /\ \A caller \in Callers, u \in Ids, months \in Months :
           ClearedOnlyWhenExtended(AdminAddRun(caller, u, months).db)
    /\ \A u \in Ids, text \in StartTexts, name \in Names :
           ClearedOnlyWhenExtended(StartRun(u, text, name).db)

\* a revoked, still lapsed subscription whose user was given a key again: the scans
\* that follow have a key they could clear
C5_Witness ==
    \E u \in Ids : /\ Sub(u).keys_deleted = 1
                   /\ Sub(u).expires_at <= now
                   /\ db.user_keys[u].present
                   /\ db.user_keys[u].outline # NoKey
InWarning(exp_dt, t) == exp_dt > t /\ exp_dt - t <= WARN_BEFORE

\* the scan that follows a handler: at once, or one scan interval later
NextScanDelays == {0, CHECK_INTERVAL}

\* a handler that ended in context c and credited a warned subscription in WARNING so
\* that its expiry lies beyond the warning threshold: the next scan leaves warn_2d_sent = 0
ClearedByNextScan(c) ==
    \A v \in Ids :
        (/\ c.cr[v] > 0
         /\ Sub(v).present /\ Sub(v).warn_2d_sent = 1 /\ InWarning(Sub(v).expires_at, now)
         /\ c.db.subscriptions[v].expires_at - now > WARN_BEFORE) =>
            \A dt \in NextScanDelays, o \in ScanOutcomes(c.db) :
                ScanOnce(c.db, now + dt, o).db.subscriptions[v].warn_2d_sent = 0

\* C6: a subscription in WARNING with warn_2d_sent = 1 that a credit (operator grant,
\* referral bonus or referral trial) moves beyond the warning threshold has
\* warn_2d_sent = 0 after the next scan; a subscription in WARNING with warn_2d_sent = 0
\* is warned once: the scan that delivers the warning sets the flag and the scans that
\* follow do not attempt it again
C6_Hysteresis ==
    /\ \A caller \in Callers, u \in Ids, months \in Months :
           ClearedByNextScan(AdminAddRun(caller, u, months))
    /\ \A u \in Ids, text \in StartTexts, name \in Names :
           ClearedByNextScan(StartRun(u, text, name))
    /\ \A u \in Ids :
           (Sub(u).present /\ Sub(u).warn_2d_sent = 0 /\ InWarning(Sub(u).expires_at, now)) =>
               \A o \in ScanOutcomes(db) :
                   LET r == ScanOnce(db, now, o)
                   IN  /\ "warn_attempt" \in r.ev[u]
                       /\ o[u].first =>
                           /\ "warn_sent" \in r.ev[u]
                           /\ r.db.subscriptions[u].warn_2d_sent = 1
                           /\ \A dt \in NextScanDelays, o2 \in ScanOutcomes(r.db) :
                                  LET r2 == ScanOnce(r.db, now + dt, o2)
                                  IN  r2.ev[u] \cap {"warn_attempt", "warn_sent"} = {}
    /\ \A u \in Ids :
           (Sub(u).present /\ Sub(u).warn_2d_sent = 1 /\ Sub(u).expires_at > now) =>
               \A o \in ScanOutcomes(db) : "warn_attempt" \notin ScanOnce(db, now, o).ev[u]

\* a warned subscription that the referral trial has just moved beyond the threshold:
\* the flag is still 1 and the next scan is to clear it
C6_Witness ==
    \E u \in Ids : /\ Sub(u).warn_2d_sent = 1
                   /\ Sub(u).expires_at - now > WARN_BEFORE
                   /\ gh.trial[u] = 1

\* C7: apply_referral_on_start called twice, one call after the other, for a new user
\* with a valid referral payload: the first call stores the referrer and credits the
\* trial days once; the second changes nothing in the store and returns None
C7_ApplyTwice ==
    \A u \in Ids, text \in StartTexts, text2 \in StartTexts :
        LET referrer_id == parse_referrer_id_from_start(text, u)
            c1 == apply_referral_on_start(db, u, text)
            c2 == apply_referral_on_start(c1.db, u, text2)
        IN  /\ (db.users[u].present /\ db.users[u].referrer_id = NULL /\ referrer_id # NULL) =>
                /\ c1.l.ret = referrer_id
                /\ c1.db.users[u].referrer_id = referrer_id
                /\ c1.cr = [NoCredits EXCEPT ![u] = TRIAL_DAYS_FOR_INVITEE]
                /\ c1.gh.trial[u] = gh.trial[u] + 1
                /\ c2.db = c1.db /\ c2.l.ret = NULL /\ c2.cr = NoCredits
            /\ (db.users[u].present /\ db.users[u].referrer_id # NULL) =>
                /\ c1.db = db /\ c1.l.ret = NULL /\ c1.cr = NoCredits

\* a user whose first call has stored the referrer and credited the trial
C7_Witness ==
    \E u \in Ids : /\ db.users[u].present
                   /\ db.users[u].referrer_id # NULL
                   /\ gh.trial[u] = 1
                   /\ Sub(u).present

KeysCleared(k) == k.outline = NoKey /\ k.v2ray = NoKey /\ k.amnezia = NoKey

\* C8: for a user with no subscription, _add_days(u, 30) at t0 gives expires_at = t0 + 30d
\* and period_days = 30; with every send delivered, the scan at t0 + 29d sends one
\* warning and sets warn_2d_sent; the scan a minute later sends nothing; the scan at
\* t0 + 31d sends one expiry notice and sets expired_sent; the scan at t0 + 33d clears
\* the keys and sets keys_deleted; _add_days(u, 10) at t0 + 34d gives
\* expires_at = t0 + 44d and the three flags at 0
C8_Trace ==
    LET u == script.u
        t0 == script.t0
    IN  /\ script.step = 1 =>
               /\ Sub(u).expires_at = t0 + 30 * Day
               /\ Sub(u).period_days = 30
        /\ script.step = 3 =>
               /\ script.ev = {"warn_attempt", "warn_sent"}
               /\ Flags(db, u) = <<1, 0, 0>>
        /\ script.step = 5 =>
               /\ script.ev = {}
               /\ Flags(db, u) = <<1, 0, 0>>
        /\ script.step = 7 =>
               /\ script.ev = {"expired_attempt", "expired_sent"}
               /\ Flags(db, u)[2] = 1 /\ Flags(db, u)[3] = 0
        /\ script.step = 9 =>
               /\ script.ev = {"revoked", "notice_attempt", "notice_sent"}
               /\ KeysCleared(db.user_keys[u])
               /\ Flags(db, u)[3] = 1
        /\ script.step = 11 =>
               /\ now = t0 + 34 * Day
               /\ Sub(u).expires_at = t0 + 44 * Day
               /\ Flags(db, u) = <<0, 0, 0>>

\* the end of the trace, for a user whose keys the scan at t0 + 33d has cleared
C8_Witness ==
    /\ script.step = 11
    /\ db.user_keys[script.u].present
    /\ db.user_keys[script.u].updated_by = 0
    /\ Sub(script.u).period_days = 40

\* a handler that ended in context c: every subscription that existed and was credited
\* has its three flags at 0
FlagsResetByCredit(c) ==
    \A v \in Ids : (c.cr[v] > 0 /\ Sub(v).present) => Flags(c.db, v) = <<0, 0, 0>>

\* C9: every extension of an existing subscription, through the operator grant, the
\* referral bonus or the referral trial, leaves warn_2d_sent, expired_sent and
\* keys_deleted at 0 in the stored row when it returns
C9_ExtensionResetsFlags ==
    /\ \A caller \in Callers, u \in Ids, months \in Months :
           FlagsResetByCredit(AdminAddRun(caller, u, months))
    /\ \A u \in Ids, text \in StartTexts, name \in Names :
           FlagsResetByCredit(StartRun(u, text, name))

\* C10: in a scan warn_2d_sent (expired_sent) goes from 0 to 1 for a user only if the
\* warning (the expiry notice) was attempted in that scan and was delivered; when the
\* delivery fails the flag is still 0 after the scan and a scan that follows at once
\* attempts the notification again
C10_FlagOnlyAfterDelivery ==
    \A o \in ScanOutcomes(db) :
        LET r == ScanOnce(db, now, o)
        IN  \A u \in Ids :
                /\ (Sub(u).warn_2d_sent = 0 /\ r.db.subscriptions[u].warn_2d_sent = 1) =>
                       ({"warn_attempt", "warn_sent"} \subseteq r.ev[u] /\ o[u].first)
                /\ (Sub(u).expired_sent = 0 /\ r.db.subscriptions[u].expired_sent = 1) =>
                       ({"expired_attempt", "expired_sent"} \subseteq r.ev[u] /\ o[u].first)
                /\ ("warn_attempt" \in r.ev[u] /\ ~o[u].first) =>
                       /\ r.db.subscriptions[u].warn_2d_sent = 0
                       /\ \A o2 \in ScanOutcomes(r.db) :
                              "warn_attempt" \in ScanOnce(r.db, now, o2).ev[u]
                /\ ("expired_attempt" \in r.ev[u] /\ ~o[u].first) =>
                       /\ r.db.subscriptions[u].expired_sent = 0
                       /\ \A o2 \in ScanOutcomes(r.db) :
                              "expired_attempt" \in ScanOnce(r.db, now, o2).ev[u]

\* a lapsed subscription that a scan has revoked while its expiry notice still failed:
\* expired_sent is 0 and the next scan is to attempt the notice again
C10_Witness ==
    \E u \in Ids, o \in ScanOutcomes(db) :
        /\ Sub(u).keys_deleted = 1 /\ Sub(u).expired_sent = 0 /\ Sub(u).expires_at <= now
        /\ ~o[u].first
        /\ "expired_attempt" \in ScanOnce(db, now, o).ev[u]

\* C11: a scan that finds a subscription past its grace period with keys_deleted = 0
\* clears the three credentials and sets keys_deleted = 1 in the store it commits,
\* whether or not the expiry notice and the revocation notice are delivered.
C11_RevocationCommitted ==
    \A u \in Ids :
        (Sub(u).present /\ Sub(u).expires_at # NULL /\ Sub(u).keys_deleted = 0
            /\ GraceOver(Sub(u).expires_at, now))
        => \A o \in ScanOutcomes(db) :
               LET r == ScanOnce(db, now, o)
               IN  /\ r.db.subscriptions[u].keys_deleted = 1
                   /\ KeysCleared(r.db.user_keys[u])
                   /\ r.db.user_keys[u].present => r.db.user_keys[u].updated_by = 0
                   /\ "revoked" \in r.ev[u]

\* a lapsed subscription past grace, not yet revoked, expiry notice not yet sent, with a key
C11_Witness ==
    \E u \in Ids :
        /\ Sub(u).present /\ Sub(u).expires_at # NULL /\ Sub(u).keys_deleted = 0
        /\ Sub(u).expired_sent = 0
        /\ GraceOver(Sub(u).expires_at, now)
        /\ db.user_keys[u].present /\ ~KeysCleared(db.user_keys[u])

\* C18: an operator action that names a user without a users row changes nothing
\* in the store.
C18_UnknownUserNoMutation ==
    \A u \in Ids :
        ~db.users[u].present
        => /\ \A caller \in Callers, months \in Months :
                  AdminAddRun(caller, u, months).db = db
           /\ \A caller \in Callers, tariff_code \in InputTariffs :
                  AdminSetTariffHandler(db, caller, u, tariff_code) = db
           /\ \A caller \in Callers, key_type \in InputKeyTypes, text \in Texts :
                  AdminKeyDialogue(db, caller, u, key_type, text) = db

\* C20: a start payload that names the caller itself is rejected: the referral
\* application returns none, stores no referrer and grants no trial, and the whole
\* start handler does no more than the profile upsert.
C20_SelfReferralRejected ==
    \A u \in Ids :
        /\ parse_referrer_id_from_start(RefPayload(u), u) = NULL
        /\ LET c == apply_referral_on_start(db, u, RefPayload(u))
           IN  c.db = db /\ c.l.ret = NULL /\ c.cr = NoCredits /\ c.gh = gh
        /\ \A name \in Names :
               LET c == StartRun(u, RefPayload(u), name)
               IN  c.db = upsert_user(db, u, name) /\ c.cr = NoCredits /\ c.gh = gh

\* a user who has started, has no referrer and no subscription: the state a
\* self-referral start leaves behind
C20_Witness ==
    \E u \in Ids :
        /\ db.users[u].present /\ db.users[u].referrer_id = NULL
        /\ ~Sub(u).present /\ gh.trial[u] = 0
\* the scan in which no statement raises is the scan of ScanOnce
ScanOnceF_NoFault ==
    \A o \in ScanOutcomes(db) :
        LET r == ScanOnceF(db, now, o, NoFault)
            q == ScanOnce(db, now, o)
        IN  r.db = q.db /\ r.ev = q.ev /\ r.processed = WatcherIds(db) /\ ~r.aborted

\* C12: when one store write of one row raises during a scan (re-activation, warning,
\* hysteresis, expiry or revocation step), the scan still processes every row it selected.
C12_RowFailureIsolated ==
    \A o \in ScanOutcomesC4(db), f \in ScanFaults(db) :
        ScanOnceF(db, now, o, f).processed = WatcherIds(db)
\* a scan in which one statement raises commits cleared credentials only with keys_deleted = 1
RevokeWritesPaired ==
    \A o \in ScanOutcomesC4(db), f \in ScanFaults(db) :
        LET r == ScanOnceF(db, now, o, f)
        IN  \A u \in Ids :
                (~KeysCleared(db.user_keys[u]) /\ KeysCleared(r.db.user_keys[u]))
                => r.db.subscriptions[u].keys_deleted = 1

\* a handler that moved an expiry committed it with the three flags at 0
ExpiryWrittenWithFlags(c) ==
    \A v \in StoreIds :
        c.db.subscriptions[v].expires_at # db.subscriptions[v].expires_at
        => Flags(c.db, v) = Flags(EmptyDb, v)

ExtendWritesPaired ==
    /\ \A caller \in Callers, u \in Ids, months \in Months :
           ExpiryWrittenWithFlags(AdminAddRun(caller, u, months))
    /\ \A u \in Ids, text \in StartTexts, name \in Names :
           ExpiryWrittenWithFlags(StartRun(u, text, name))

\* C19: no store failure during an extension or a revocation leaves a committed store
\* in which an expiry was moved while the three flags were not reset, or in which a
\* user's credentials were cleared while keys_deleted is still 0.
C19_PairedWritesAtomic == RevokeWritesPaired /\ ExtendWritesPaired
\* C14: a referrer that is set is never changed and never set back to NULL, by any
\* step of any start or admin_add invocation, however the invocations interleave.
C14_ReferrerKept ==
    [][\A u \in StoreIds :
           db.users[u].referrer_id # NULL
           => db'.users[u].referrer_id = db.users[u].referrer_id]_vars

\* a start invocation has just executed its referrer UPDATE with a referrer other than
\* the one the row already carried
C14_Witness ==
    \E i \in 1..Len(procs) :
        LET p == procs[i]
        IN  /\ p.op = "start" /\ p.pc = "rd_read"
            /\ p.l.referrer_id # NULL
            /\ db.users[p.a.user_id].referrer_id # NULL
            /\ db.users[p.a.user_id].referrer_id # p.l.referrer_id

\* the admin_add invocations for u that executed the first_paid UPDATE (lines 368-372),
\* and those that executed the ref_bonus_awarded UPDATE (lines 381-382)
FirstPaidWriters(u) ==
    {i \in 1..Len(procs) :
        /\ procs[i].op = "admin_add" /\ procs[i].a.user_id = u
        /\ procs[i].l.awnow # NULL /\ procs[i].pc # "aw_first_paid"}
AwardedWriters(u) ==
    {i \in 1..Len(procs) :
        /\ procs[i].op = "admin_add" /\ procs[i].a.user_id = u
        /\ procs[i].l.award_ret # NULL}

\* C15: for each user, first_paid and first_paid_at are written by at most one
\* invocation of the bonus function, and ref_bonus_awarded is written at most once.
C15_TransitionsOnce ==
    \A u \in Ids :
        Cardinality(FirstPaidWriters(u)) <= 1 /\ Cardinality(AwardedWriters(u)) <= 1
\* the newest pending payment of u, by the order of the identifiers
NewestPending(d, u) == CHOOSE i \in PendingIds(d, u) : \A j \in PendingIds(d, u) : j <= i

\* C16: a payment that was pending while a newer payment of the same user existed is
\* never used later: once the newer one is approved, a further grant with no new
\* submission leaves the older payment pending and the subscription's tariff as it is.
C16_OlderPendingNeverUsed ==
    \A u \in Ids, j \in 1..Len(db.payments) :
        (db.payments[j].user_id = u /\ db.payments[j].status = "approved")
        => \A i \in PendingIds(db, u) :
               i < j
               => \A caller \in Callers, months \in Months :
                      LET c == AdminAddRun(caller, u, months)
                      IN  /\ c.db.payments[i].status = "pending"
                          /\ c.db.subscriptions[u].tariff = db.subscriptions[u].tariff

\* C17: for a user with a pending payment, the linker takes the pending payment with
\* the highest identifier, sets the subscription's tariff to that payment's tariff,
\* turns exactly that payment from pending to approved and returns the tariff; nothing
\* else in the store changes, also when it runs as a part of admin_add.
C17_ApplyLatestPending ==
    \A u \in Ids :
        PendingIds(db, u) # {}
        => LET id == NewestPending(db, u)
               tariff == db.payments[id].tariff
               r == _apply_latest_pending_payment_tariff(db, u)
               c == AdminAddRun(7, u, 1)
           IN  /\ r.ret = tariff
               /\ r.db.subscriptions[u].present /\ r.db.subscriptions[u].tariff = tariff
               /\ r.db.payments = [db.payments EXCEPT ![id].status = "approved"]
               /\ r.db.users = db.users /\ r.db.user_keys = db.user_keys
               /\ \A v \in StoreIds \ {u} : r.db.subscriptions[v] = db.subscriptions[v]
               /\ ~db.subscriptions[u].present
                  => r.db.subscriptions[u] = [NoSub EXCEPT !.present = TRUE, !.tariff = tariff]
               /\ db.subscriptions[u].present
                  => r.db.subscriptions[u] = [db.subscriptions[u] EXCEPT !.tariff = tariff]
               /\ c.db.payments = r.db.payments
               /\ c.db.subscriptions[u].tariff = tariff

\* a user with two pending payments that ask for different tariffs
C17_Witness ==
    \E u \in Ids :
        \E i, j \in PendingIds(db, u) : i < j /\ db.payments[i].tariff # db.payments[j].tariff
\* a pass of the watcher whose SELECT ran with no grant in flight and during which
\* none has arrived
QuietPass == scan.quiet /\ Len(procs) = scan.n

\* C13: however the statements of a grant and of a pass of the watcher over the same
\* user interleave, the end of a further pass that began after the grants had ended
\* leaves every subscription whose expiry lies after that pass's instant with
\* expired_sent = 0 and keys_deleted = 0.
C13_OverlapEndsActive ==
    [][(scan.pc # "idle" /\ scan'.pc = "idle" /\ QuietPass)
       => \A u \in Ids :
              (db'.subscriptions[u].present /\ db'.subscriptions[u].expires_at # NULL
                  /\ db'.subscriptions[u].expires_at > scan.t)
              => /\ db'.subscriptions[u].expired_sent = 0
                 /\ db'.subscriptions[u].keys_deleted = 0]_vars

\* a grant for u has ended, a pass that overlapped it wrote keys_deleted = 1 after the
\* grant's reset, and the further pass, which read that row, has just re-activated it
C13_Witness ==
    \E u \in Ids :
        /\ QuietPass /\ scan.pc = "warn" /\ scan.u = u
        /\ scan.subs[u].keys_deleted = 1
        /\ scan.subs[u].expires_at > scan.t
        /\ db.subscriptions[u].keys_deleted = 0
        /\ \E i \in 1..Len(procs) : procs[i].a.user_id = u /\ procs[i].cr[u] > 0
\* what a start of user u that ended in context c left alone: every subscription but
\* u's own, every users row but u's own, u's first_paid and ref_bonus_awarded, the
\* credentials, the payments and the count of bonuses
TrialFrame(c, u) ==
    /\ \A v \in StoreIds \ {u} :
           /\ c.db.subscriptions[v] = db.subscriptions[v]
           /\ c.db.users[v] = db.users[v]
           /\ c.cr[v] = 0
    /\ c.db.users[u].first_paid = db.users[u].first_paid
    /\ c.db.users[u].first_paid_at = db.users[u].first_paid_at
    /\ c.db.users[u].ref_bonus_awarded = db.users[u].ref_bonus_awarded
    /\ c.db.user_keys = db.user_keys /\ c.db.payments = db.payments
    /\ c.gh.bonus = gh.bonus
    /\ c.cr[u] \in {0, TRIAL_DAYS_FOR_INVITEE}

\* C21: the referral application on a first /start credits the trial to the new user
\* alone: the referrer's subscription, the new user's first_paid and ref_bonus_awarded
\* and the bonus count are as before, for every payload and from every store.
C21_TrialToNewUserOnly ==
    \A u \in Ids, text \in StartTexts :
        /\ TrialFrame(apply_referral_on_start(db, u, text), u)
        /\ \A name \in Names : TrialFrame(StartRun(u, text, name), u)

\* a user who has not started yet while the other user, whom a payload can name, has a
\* subscription: a start with that payload credits the trial here
C21_Witness ==
    \E u \in Ids, n \in Ids :
        /\ u # n /\ ~db.users[u].present /\ Sub(n).present
        /\ StartRun(u, RefPayload(n), "n1").cr[u] = TRIAL_DAYS_FOR_INVITEE
\* C22: for a user with first_paid = 0 and no referrer the bonus function sets
\* first_paid = 1 and first_paid_at = now, returns none and credits nobody; a repeated
\* call, and every call for a user with first_paid = 1 (with a referrer or without), is
\* a no-op that returns none.
C22_FirstPaidGate ==
    \A u \in Ids :
        LET r == _award_referrer_bonus_if_first_paid(db, u)
            again == _award_referrer_bonus_if_first_paid(r.db, u)
        IN  /\ (db.users[u].present /\ db.users[u].first_paid = 0
                   /\ db.users[u].referrer_id = NULL)
               => /\ r.db = [db EXCEPT !.users[u].first_paid = 1,
                                        !.users[u].first_paid_at = now]
                  /\ r.ret = NULL /\ r.cr = NoCredits
                  /\ again.db = r.db /\ again.ret = NULL /\ again.cr = NoCredits
            /\ (db.users[u].present /\ db.users[u].first_paid = 1)
               => r.db = db /\ r.ret = NULL /\ r.cr = NoCredits

\* one user has not paid and has no referrer; another has a referrer and paid at an
\* earlier instant
C22_Witness ==
    \E u \in Ids, v \in Ids :
        /\ db.users[u].present /\ db.users[u].first_paid = 0 /\ db.users[u].referrer_id = NULL
        /\ db.users[v].present /\ db.users[v].first_paid = 1 /\ db.users[v].referrer_id # NULL
        /\ db.users[v].first_paid_at < now
\* C23: for a user with no pending payment the linker returns none and changes nothing
\* in the store, alone and as a part of admin_add (which changes the store as the
\* grant and the bonus function alone do).
C23_NoPendingNoChange ==
    \A u \in Ids :
        PendingIds(db, u) = {}
        => LET r == _apply_latest_pending_payment_tariff(db, u)
               c == AdminAddRun(7, u, 1)
           IN  /\ r.db = db /\ r.ret = NoTariff
               /\ c.db.payments = db.payments
               /\ c.db.subscriptions[u].tariff = db.subscriptions[u].tariff

\* a user whose only payment is approved, whose tariff the operator has changed by
\* hand since: no pending payment is left to link
C23_Witness ==
    \E u \in Ids, i \in 1..Len(db.payments) :
        /\ db.payments[i].user_id = u /\ db.payments[i].status = "approved"
        /\ PendingIds(db, u) = {}
        /\ Sub(u).present /\ Sub(u).tariff # db.payments[i].tariff

\* the subscription row of u in store d2 is the one of the current store with the
\* tariff replaced, or a new row with the tariff and nothing else
OnlyTariffSet(d2, u, tariff_code) ==
    /\ d2.subscriptions[u] =
           IF Sub(u).present THEN [Sub(u) EXCEPT !.tariff = tariff_code]
           ELSE [NoSub EXCEPT !.present = TRUE, !.tariff = tariff_code]
    /\ \A v \in StoreIds \ {u} : d2.subscriptions[v] = db.subscriptions[v]
    /\ d2.users = db.users /\ d2.user_keys = db.user_keys

\* C24: the tariff button, and the linker applied to a payment just submitted, change
\* the tariff of the user's subscription and the status of that payment and nothing
\* else: expires_at, period_days, purchased_at and the three flags keep their values,
\* and a row they create has NULL expires_at and period_days and the flags at 0.
C24_OnlyTariffChanges ==
    \A u \in Ids, tariff_code \in TariffCodes :
        /\ LET d2 == AdminSetTariffHandler(db, 7, u, tariff_code)
           IN  OnlyTariffSet(d2, u, tariff_code) /\ d2.payments = db.payments
        /\ LET d1 == PayDialogue(db, u, tariff_code, TRUE, now)
               r == _apply_latest_pending_payment_tariff(d1, u)
           IN  /\ OnlyTariffSet(r.db, u, tariff_code)
               /\ r.db.payments = [d1.payments EXCEPT ![Len(d1.payments)].status = "approved"]

\* one user has a revoked subscription (flags set, a period and an expiry to keep),
\* the other has no subscription row yet
C24_Witness ==
    \E u \in Ids, v \in Ids :
        /\ Sub(u).present /\ Sub(u).keys_deleted = 1 /\ Sub(u).expires_at # NULL
        /\ ~Sub(v).present
\* C25: after every complete scan, each subscription whose expiry lies after the
\* instant of that scan has expired_sent = 0 and keys_deleted = 0, whichever credit
\* moved the expiry there, and whatever the notices of the scan do.
C25_ScanReactivates ==
    \A o \in ScanOutcomes(db) :
        LET r == ScanOnce(db, now, o)
        IN  \A u \in Ids :
                (Sub(u).present /\ Sub(u).expires_at # NULL /\ Sub(u).expires_at > now)
                => /\ r.db.subscriptions[u].expired_sent = 0
                   /\ r.db.subscriptions[u].keys_deleted = 0
                   /\ r.db.subscriptions[u].expires_at = Sub(u).expires_at

\* a revoked subscription that the referral trial, which resets no flag, has extended
C25_Witness ==
    \E u \in Ids :
        /\ Sub(u).present /\ Sub(u).expires_at > now
        /\ Sub(u).keys_deleted = 1 /\ gh.trial[u] = 1
\* the days the first i invocations credited to u
RECURSIVE CreditSum(_, _)
CreditSum(i, u) == IF i = 0 THEN 0 ELSE procs[i].cr[u] + CreditSum(i - 1, u)

AllEnded == \A i \in 1..Len(procs) : Ended(procs[i])

\* C26: when extensions of one subscription overlap, none is lost: once every
\* invocation has ended, period_days is the sum of the days they credited and
\* expires_at lies that many days after the first credit.
C26_NoCreditLost ==
    AllEnded
    => \A u \in StoreIds :
           Sub(u).present
           => /\ Sub(u).period_days = CreditSum(Len(procs), u)
              /\ Sub(u).expires_at = now + timedelta(CreditSum(Len(procs), u))

\* C27: the trial is credited only by the invocation whose UPDATE set the referrer:
\* however the first starts of one user overlap, the user is credited one trial at most,
\* and an invocation that credited it is one that wrote the referrer.
C27_TrialOnce ==
    /\ \A u \in Ids : gh.trial[u] <= 1
    /\ \A i \in 1..Len(procs) :
           (procs[i].op = "start" /\ procs[i].cr[procs[i].a.user_id] > 0) => procs[i].l.wrote
PastGrace(u) ==
    Sub(u).present /\ Sub(u).expires_at # NULL /\ GraceOver(Sub(u).expires_at, now)

\* C28: a subscription past its grace period with keys_deleted = 0 comes to have its
\* credentials cleared and keys_deleted = 1, unless a credit takes it out of the lapsed
\* state first, as long as passes in which no store statement raises recur; no send
\* need ever be delivered.
C28_EventuallyRevoked ==
    \A u \in Ids :
        [](PastGrace(u) /\ Sub(u).keys_deleted = 0
           => <>(\/ Sub(u).keys_deleted = 1 /\ KeysCleared(db.user_keys[u])
                 \/ ~PastGrace(u)))

\* the watcher has revoked a subscription whose user holds no flag of a delivered
\* notice: neither the warning nor the expiry notice ever got through
C28_Witness ==
    \E u \in Ids :
        /\ PastGrace(u) /\ Sub(u).keys_deleted = 1 /\ KeysCleared(db.user_keys[u])
        /\ db.user_keys[u].present /\ db.user_keys[u].updated_by = 0
        /\ Sub(u).warn_2d_sent = 0 /\ Sub(u).expired_sent = 0
        /\ scan.pc = "sleep"
InWarnWindow(u) ==
    /\ Sub(u).present /\ Sub(u).expires_at # NULL
    /\ IsActive(Sub(u).expires_at, now) /\ WarnDue(Sub(u).expires_at, now)

Lapsed(u) == Sub(u).present /\ Sub(u).expires_at # NULL /\ ~IsActive(Sub(u).expires_at, now)

\* every pass in which no store statement raises attempts the notice that is due
RetriedEveryScan ==
    \A u \in Ids, o \in ScanOutcomes(db) :
        LET r == ScanOnce(db, now, o)
        IN  /\ (InWarnWindow(u) /\ Sub(u).warn_2d_sent = 0) => "warn_attempt" \in r.ev[u]
            /\ (Lapsed(u) /\ Sub(u).expired_sent = 0) => "expired_attempt" \in r.ev[u]
            /\ (o[u].first /\ InWarnWindow(u) /\ Sub(u).warn_2d_sent = 0)
               => r.db.subscriptions[u].warn_2d_sent = 1
            /\ (o[u].first /\ Lapsed(u) /\ Sub(u).expired_sent = 0)
               => r.db.subscriptions[u].expired_sent = 1

\* a notice to u is due: the warning within the threshold, the expiry notice once lapsed
NoticeDue(u) ==
    \/ InWarnWindow(u) /\ Sub(u).warn_2d_sent = 0
    \/ Lapsed(u) /\ Sub(u).expired_sent = 0

\* C29: while a subscription is within the warning threshold (is lapsed) with its flag
\* at 0, every pass attempts the warning (the expiry notice) again; and if passes whose
\* sends are delivered recur, a state follows in which no notice is due: each flag has
\* come to be 1 unless the subscription left the threshold (the lapsed state) first.
C29_AtLeastOnce ==
    /\ []RetriedEveryScan
    /\ (\E u \in Ids : NoticeDue(u)) ~> (\A u \in Ids : ~NoticeDue(u))

\* a lapsed subscription whose expiry notice a pass has delivered and recorded, while
\* its warning never got through
C29_Witness ==
    \E u \in Ids :
        /\ Lapsed(u) /\ Sub(u).expired_sent = 1 /\ Sub(u).keys_deleted = 1
        /\ Sub(u).warn_2d_sent = 0
        /\ scan.pc = "sleep"
\* C30: the watcher's task never ends: every pass, also one that a raised statement
\* cut short, is followed by the sleep, and every sleep by another pass.
C30_LoopKeepsRunning ==
    /\ [](scan.pc \in {"idle", "sleep"})
    /\ []<>(scan.pc = "idle")

\* the task sleeps after a pass that ended in the except, with a subscription in the
\* store
C30_Witness == scan.pc = "sleep" /\ scan.raised /\ WatcherIds(db) # {}

\* the day counter of v after a handler that ended in context c: what it was (0 for a
\* missing row or an empty column) plus the days the handler credited to v
PeriodAccumulated(c, v) ==
    LET before == IF Sub(v).present THEN IntOr0(Sub(v).period_days) ELSE 0
    IN  IF c.cr[v] > 0
        THEN c.db.subscriptions[v].present
             /\ c.db.subscriptions[v].period_days = before + c.cr[v]
        ELSE c.db.subscriptions[v].period_days = Sub(v).period_days

\* C31: period_days is the sum of the days of the extend calls made for the user. From
\* every reachable state, lapsed, revoked or re-activated, each grant (with its bonus)
\* and each start (with its trial) adds exactly the days it credits to the counter of
\* each user, and neither a pass of the watcher nor the key dialogue changes it; the
\* counter starts absent, so it equals the sum after any sequence of calls.
C31_PeriodAccumulates ==
    /\ \A caller \in Callers, u \in Ids, months \in Months, v \in StoreIds :
           PeriodAccumulated(AdminAddRun(caller, u, months), v)
    /\ \A u \in Ids, text \in StartTexts, name \in Names, v \in StoreIds :
           PeriodAccumulated(StartRun(u, text, name), v)
    /\ \A o \in ScanOutcomes(db), v \in StoreIds :
           ScanOnce(db, now, o).db.subscriptions[v].period_days = Sub(v).period_days
    /\ \A caller \in Callers, u \in Ids, text \in Texts, v \in StoreIds :
           AdminKeyDialogue(db, caller, u, "outline", text).subscriptions[v].period_days
               = Sub(v).period_days

\* two grants for one user with a lapse and a revocation between them: the second grant
\* started from now (the expiry lies beyond the sum of the two periods), the keys row
\* was cleared by the watcher, the flags are reset, and the counter holds both grants
C31_Witness ==
    \E u \in Ids :
        /\ Sub(u).present /\ Sub(u).period_days = 2 * DAYS_PER_MONTH
        /\ Sub(u).expires_at > timedelta(2 * DAYS_PER_MONTH)
        /\ Sub(u).keys_deleted = 0
        /\ db.user_keys[u].present /\ db.user_keys[u].updated_by = 0
        /\ KeysCleared(db.user_keys[u])

\* the contexts admin_add goes through from c, one per store statement, to its end
RECURSIVE AdminAddTrace(_)
AdminAddTrace(c) == IF Ended(c) THEN <<c>> ELSE <<c>> \o AdminAddTrace(AdminAddStep(c))

\* the part of admin_add a context is in: 0 the checks, 1 the extension of the target,
\* 2 the pending payment, 3 the referral check with the bonus it may credit, 4 the end
Stage(c) ==
    CASE c.pc = "begin" -> 0
      [] c.pc \in {"ad_read", "ad_write"} -> IF c.l.cont = "pay_read" THEN 1 ELSE 3
      [] c.pc \in {"pay_read", "pay_tariff", "pay_approve"} -> 2
      [] c.pc \in {"aw_read", "aw_first_paid", "aw_mark"} -> 3
      [] OTHER -> 4

StagesOf(tr) == {Stage(tr[i]) : i \in 1..Len(tr)}

\* C32: a grant of N months by an operator, N one of 1, 2, 3, 6, 12, goes through the
\* extension of the target by N * 30 days, then the latest pending payment, then the
\* referral check, in this order and through all three, also when no payment is
\* pending; at the payment step the days are credited, at the referral step the
\* payment read is approved; a grant with another N, or by another caller, goes
\* through none and leaves the store as it was.
C32_GrantOrder ==
    \A caller \in Callers, u \in Ids, months \in Months :
        LET tr == AdminAddTrace(Ctx([caller |-> caller, user_id |-> u, months |-> months],
                                    AdminLocals))
            end == tr[Len(tr)]
        IN  IF is_admin(caller) /\ months \in {1, 2, 3, 6, 12}
            THEN /\ \A i, j \in 1..Len(tr) : i < j => Stage(tr[i]) <= Stage(tr[j])
                 /\ StagesOf(tr) = 0..4
                 /\ \A i \in 1..Len(tr) :
                        /\ Stage(tr[i]) = 1
                           => tr[i].l.target = u /\ tr[i].l.days = months * DAYS_PER_MONTH
                        /\ Stage(tr[i]) \in {2, 3}
                           => /\ tr[i].cr[u] = months * DAYS_PER_MONTH
                              /\ tr[i].db.subscriptions[u].present
                        /\ Stage(tr[i]) = 3
                           => LatestPendingId(tr[i].db, u) # LatestPendingId(db, u)
                              \/ LatestPendingId(db, u) = NULL
                        /\ Stage(tr[i]) < 3
                           => tr[i].db.users = db.users
                 /\ end.pc = "done"
            ELSE StagesOf(tr) = {0, 4} /\ end.db = db

\* the store after a grant that did all three things: the user's payment is approved
\* and its tariff stored, the user is marked as having paid, and the referrer holds the
\* bonus days
C32_Witness ==
    \E u \in Ids :
        /\ Sub(u).present /\ Sub(u).tariff = "bundle"
        /\ Len(db.payments) = 1 /\ db.payments[1].user_id = u
        /\ db.payments[1].status = "approved" /\ db.payments[1].tariff = "bundle"
        /\ db.users[u].present /\ db.users[u].first_paid = 1
        /\ db.users[u].ref_bonus_awarded = 1
        /\ db.users[u].referrer_id \in Ids
        /\ Sub(db.users[u].referrer_id).present
        /\ Sub(db.users[u].referrer_id).period_days = BONUS_DAYS_FOR_REFERRER

\* a grant for a user with a referrer and no pending payment has made the referral
\* check all the same
C32_WitnessNoPayment ==
    \E u \in Ids :
        /\ db.payments = <<>>
        /\ Sub(u).present /\ db.users[u].first_paid = 1 /\ db.users[u].ref_bonus_awarded = 1

\* C33: the watcher sets keys_deleted = 1 (and clears the keys) for a user only when,
\* at that write, the stored expires_at plus the grace period is not after now.
C33_RevokeOnFreshExpiry ==
    [][\A u \in Ids :
          (Sub(u).present /\ Sub(u).keys_deleted = 0
           /\ db'.subscriptions[u].keys_deleted = 1)
          => GraceOver(Sub(u).expires_at, now)]_vars

\* C34: a pass of the watcher that runs to its commit at an instant at or after
\* expires_at plus the grace period leaves the subscription's user without any key,
\* whatever the operator did since an earlier revocation.
C34_NoKeyPastGrace ==
    \A u \in Ids, o \in ScanOutcomes(db) :
        PastGrace(u) => KeysCleared(ScanOnce(db, now, o).db.user_keys[u])

\* invocation i of admin_add stored first_paid = 1 for u, went on to extend u's
\* referrer and has ended
BonusAttempted(i, u) ==
    /\ procs[i].op = "admin_add" /\ procs[i].a.user_id = u
    /\ Ended(procs[i])
    /\ procs[i].l.cont = "aw_mark" /\ procs[i].l.referrer_id # NULL

\* C35: once every invocation that stored first_paid = 1 for a referee has ended, the
\* referrer has been credited the bonus, or the next invocation of
\* _award_referrer_bonus_if_first_paid for the referee credits it.
C35_BonusNotLost ==
    \A u \in Ids :
        ((\E i \in 1..Len(procs) : BonusAttempted(i, u))
         /\ (\A i \in 1..Len(procs) :
                (procs[i].op = "admin_add" /\ procs[i].a.user_id = u) => Ended(procs[i])))
        => \/ gh.bonus[u] > 0
           \/ _award_referrer_bonus_if_first_paid(db, u).cr[db.users[u].referrer_id] > 0

\* C36: a flag that a pass wrote after a delivered notice is in the store when the pass
\* is over, also when a statement of another row raised and ended the pass.
C36_DeliveredFlagKept ==
    \A o \in ScanOutcomesC4(db), f \in ScanFaults(db), u \in Ids :
        LET r == ScanOnceF(db, now, o, f)
        IN  f.u # u
            => /\ "warn_sent" \in r.ev[u] => r.db.subscriptions[u].warn_2d_sent = 1
               /\ "expired_sent" \in r.ev[u] => r.db.subscriptions[u].expired_sent = 1

\* C37: in every reachable state, however the handlers overlap, a user with
\* ref_bonus_awarded = 1 has first_paid = 1 and a referrer, and the referrer has a
\* subscription with an expiry.
C37_AwardedImpliesPaid ==
    \A u \in StoreIds :
        (db.users[u].present /\ db.users[u].ref_bonus_awarded = 1)
        => /\ db.users[u].first_paid = 1
           /\ db.users[u].referrer_id # NULL
           /\ db.users[u].referrer_id \in StoreIds
           /\ Sub(db.users[u].referrer_id).present
           /\ Sub(db.users[u].referrer_id).expires_at # NULL

\* a grant has run to its end and returned the referrer it credited: the referee
\* carries ref_bonus_awarded = 1
C37_Witness ==
    \E i \in 1..Len(procs) :
        /\ procs[i].op = "admin_add" /\ procs[i].pc = "done"
        /\ procs[i].l.award_ret # NULL
        /\ db.users[procs[i].a.user_id].ref_bonus_awarded = 1
        /\ Sub(procs[i].l.award_ret).present

\* invocation i is the first start that arrived for u, it carried no referral token
\* and it has been handled to its end
FirstContactPlain(i, u) ==
    /\ procs[i].op = "start" /\ procs[i].a.user_id = u
    /\ \A j \in 1..(i - 1) : ~(procs[j].op = "start" /\ procs[j].a.user_id = u)
    /\ parse_referrer_id_from_start(procs[i].a.text, u) = NULL
    /\ procs[i].pc = "done"

\* C38: once the first start of a user, sent without a referral token, has been
\* handled, no later step gives the user a referrer or trial days.
C38_NoReferrerAfterPlainStart ==
    [][\A u \in Ids :
          (\E i \in 1..Len(procs) : FirstContactPlain(i, u))
          => /\ db.users[u].referrer_id = NULL => db'.users[u].referrer_id = NULL
             /\ gh'.trial[u] = gh.trial[u]]_vars

\* callers that are not operators
Strangers == StoreIds \ ADMIN_IDS

\* C39: whatever the store and whatever the state of the chat's key dialogue, a grant,
\* a tariff choice, the opening of the key dialogue, its cancel button and a message
\* received in it leave the store as it was when the caller is not an operator.
C39_StrangerChangesNothing ==
    \A caller \in Strangers, u \in Ids :
        /\ \A months \in Months \cup {1, 2, 3, 6, 12} :
               RunAdminAdd([pc |-> "begin", db |-> db, now |-> now,
                            a |-> [caller |-> caller, user_id |-> u, months |-> months],
                            l |-> AdminLocals, gh |-> gh, cr |-> NoCredits]).db = db
        /\ \A tariff_code \in TariffCodes : AdminSetTariffHandler(db, caller, u, tariff_code) = db
        /\ \A fsm \in KeyDialogues :
               /\ \A key_type \in KeyTypes : admin_key_start(db, fsm, caller, u, key_type) = [db |-> db, fsm |-> fsm]
               /\ admin_key_cancel(db, fsm).db = db
               /\ \A text \in Texts : admin_key_receive(db, fsm, caller, text).db = db

\* a store in which the same requests made by an operator would change the period,
\* the payment, first_paid and the keys of a user, and made by a stranger, also one in
\* the waiting_key state, are refused
C39_Witness ==
    \E u \in Ids, caller \in Strangers :
        LET fsm == [state |-> "waiting_key", target_user_id |-> u, key_type |-> "outline"]
            text == <<" ", "k", "e", "y", "-", "1", " ">>
            granted == AdminAddRun(7, u, 1)
        IN  /\ db.users[u].present /\ db.users[u].first_paid = 0
            /\ LatestPendingId(db, u) # NULL
            /\ granted.db.users[u].first_paid = 1
            /\ granted.db.payments # db.payments
            /\ AdminAddRun(caller, u, 1).l.ret = "denied"
            /\ admin_key_receive(db, fsm, 7, text).db # db
            /\ admin_key_receive(db, fsm, caller, text) = [db |-> db, fsm |-> NoDialogue]

\* what pay_waiting_screenshot does with a message in every context of the dialogue:
\* a record only in state waiting_screenshot with a tariff of the catalog and an image,
\* no record and the context untouched for a message without an image
ScreenshotHandled ==
    \A u \in Ids, has_image \in BOOLEAN, replied \in BOOLEAN :
        LET r == pay_waiting_screenshot(db, payfsm[u], u, has_image, replied, now)
            due == /\ payfsm[u].state = "waiting_screenshot"
                   /\ payfsm[u].tariff \in PayCatalog
        IN  /\ r.db # db => due /\ has_image
            /\ (due /\ ~has_image) => r.db = db /\ r.fsm = payfsm[u]

\* a step that changes the payments appends one pending record of a user whose chat is
\* in state waiting_screenshot with a tariff of the catalog, the record's tariff
PaymentCreatedWhenDue ==
    [][db'.payments # db.payments
       => \E u \in Ids :
              /\ payfsm[u].state = "waiting_screenshot" /\ payfsm[u].tariff \in PayCatalog
              /\ db'.payments = Append(db.payments,
                                        [user_id |-> u, created_at |-> now,
                                         tariff |-> payfsm[u].tariff, status |-> "pending"])]_vars

\* C40: a payment record is created only in state waiting_screenshot, with a tariff of
\* the catalog chosen and an image in the message, with status pending, and the chat's
\* FSM context is cleared by the step that creates it; a message without an image
\* creates none and leaves the context as it was.
C40_PendingPaymentCreation ==
    /\ []ScreenshotHandled
    /\ PaymentCreatedWhenDue
    /\ [][\A u \in Ids :
             (Len(db'.payments) > Len(db.payments)
              /\ db'.payments[Len(db'.payments)].user_id = u)
             => payfsm'[u] = NoPayment]_vars
====
